---- MODULE Spec2Model ----
(***************************************************************************)
(* A model of hpat's typed hiframes pass (hpat/hiframes_typed.py) and of   *)
(* the Series <-> array type mapping it uses (hpat/pd_series_ext.py).      *)
(*                                                                         *)
(*  - The numba types are records tagged by the field k.                   *)
(*  - An IR statement is a record tagged by the field kind, an expression  *)
(*    a record tagged by the field op, a variable name a pair              *)
(*    <<base name, serial number>>.                                        *)
(*  - Spec is HiFramesTyped.run() as a state machine over one function IR. *)
(*  - LoopSpec runs the loops that the string and datetime comparison      *)
(*    handlers generate, one iteration per step, in any order.             *)
(***************************************************************************)
EXTENDS Integers, Sequences, FiniteSets, TLC

(***************************************************************************)
(* Types                                                                   *)
(***************************************************************************)

Scalar(d) == [k |-> "Scalar", dtype |-> d]

intp == Scalar("intp")

float64 == Scalar("float64")

string_type == Scalar("str")

slice2_type == [k |-> "Slice"]

none_type == [k |-> "None"]

pandas_timestamp_type == [k |-> "Timestamp"]

Array(dtype, ndim, layout, readonly, aligned) ==
    [k |-> "Array", dtype |-> dtype, ndim |-> ndim, layout |-> layout,
     mutable |-> ~readonly, aligned |-> aligned]

\* SeriesType.__init__: the fields of types.Array under another class.
SeriesType(dtype, ndim, layout, readonly, aligned) ==
    [k |-> "Series", dtype |-> dtype, ndim |-> ndim, layout |-> layout,
     mutable |-> ~readonly, aligned |-> aligned]

string_array_type == [k |-> "StringArray"]

string_series_type == SeriesType("str", 1, "C", TRUE, TRUE)

dt_index_series_type == SeriesType("dt64", 1, "C", FALSE, TRUE)

BoxedSeriesType(dtype) == [k |-> "Boxed", dtype |-> dtype]

UnBoxedSeriesType(dtype) == [k |-> "UnBoxed", dtype |-> dtype]

TupleType(ts) == [k |-> "Tuple", types |-> ts]

\* typing_key is <<prefix, attribute>>: "array.sum" is <<"array", "sum">>
BoundFunction(key, this) == [k |-> "BoundFunction", typing_key |-> key, this |-> this]

\* The type of a global function object, named by (name, module).
Function(name, mod) == [k |-> "Function", name |-> name, mod |-> mod]

IsSeries(t) == t.k = "Series"

IsArray(t) == t.k = "Array"

IsTuple(t) == t.k = "Tuple"

IsBoxed(t) == t.k = "Boxed"

series_to_array_type(typ, replace_boxed) ==
    IF typ.dtype = "str"
    THEN string_array_type
    ELSE IF IsBoxed(typ)
    THEN (IF replace_boxed THEN Array(typ.dtype, 1, "C", FALSE, TRUE) ELSE typ)
    ELSE Array(typ.dtype, typ.ndim, typ.layout, ~typ.mutable, typ.aligned)

\* if_series_to_array_type that does not go into the tuples of a tuple
MutIfSeriesToArrayTypeShallow(typ, replace_boxed) ==
    IF IsSeries(typ) THEN series_to_array_type(typ, replace_boxed)
    ELSE IF replace_boxed /\ IsBoxed(typ) THEN series_to_array_type(typ, replace_boxed)
    ELSE IF IsTuple(typ)
    THEN TupleType([i \in 1..Len(typ.types) |->
                      IF IsSeries(typ.types[i]) \/ (replace_boxed /\ IsBoxed(typ.types[i]))
                      THEN series_to_array_type(typ.types[i], replace_boxed)
                      ELSE typ.types[i]])
    ELSE typ

RECURSIVE if_series_to_array_type(_, _)
if_series_to_array_type(typ, replace_boxed) ==
    IF IsSeries(typ) THEN series_to_array_type(typ, replace_boxed)
    ELSE IF replace_boxed /\ IsBoxed(typ) THEN series_to_array_type(typ, replace_boxed)
    ELSE IF IsTuple(typ)
    THEN TupleType([i \in 1..Len(typ.types) |->
                      if_series_to_array_type(typ.types[i], replace_boxed)])
    ELSE typ

\* if_series_to_unbox that does not go into the tuples of a tuple
MutIfSeriesToUnboxShallow(typ) ==
    IF IsSeries(typ) THEN UnBoxedSeriesType(typ.dtype)
    ELSE IF IsTuple(typ)
    THEN TupleType([i \in 1..Len(typ.types) |->
                      IF IsSeries(typ.types[i]) THEN UnBoxedSeriesType(typ.types[i].dtype)
                      ELSE typ.types[i]])
    ELSE typ

RECURSIVE if_series_to_unbox(_)
if_series_to_unbox(typ) ==
    IF IsSeries(typ) THEN UnBoxedSeriesType(typ.dtype)
    ELSE IF IsTuple(typ)
    THEN TupleType([i \in 1..Len(typ.types) |-> if_series_to_unbox(typ.types[i])])
    ELSE typ

\* arr_to_series_type that passes arr.mutable as readonly
MutArrToSeriesTypeMutable(arr) ==
    IF IsArray(arr)
    THEN SeriesType(arr.dtype, arr.ndim, arr.layout, arr.mutable, arr.aligned)
    ELSE IF arr = string_array_type THEN string_series_type
    ELSE none_type

arr_to_series_type(arr) ==
    IF IsArray(arr)
    THEN SeriesType(arr.dtype, arr.ndim, arr.layout, ~arr.mutable, arr.aligned)
    ELSE IF arr = string_array_type THEN string_series_type
    ELSE none_type

is_str_arr_typ(typ) == typ = string_array_type \/ typ = string_series_type

\* whether a SeriesType occurs in a type: itself, in a tuple at any depth, or
\* as the receiver of a bound method
RECURSIVE HasSeries(_)
HasSeries(t) ==
    \/ IsSeries(t)
    \/ IsTuple(t) /\ \E i \in 1..Len(t.types) : HasSeries(t.types[i])
    \/ t.k = "BoundFunction" /\ HasSeries(t.this)

(***************************************************************************)
(* Signatures and the typers that type inference ran before the pass       *)
(***************************************************************************)

Sig(ret, args) == [k |-> "Sig", return_type |-> ret, args |-> args]

NoneSig == [k |-> "NoneSig"]

bool_series == SeriesType("bool", 1, "C", FALSE, TRUE)

bool_array == Array("bool", 1, "C", FALSE, TRUE)

\* SeriesCompEqual.generic and CmpOpEqStringArray.generic, then the array
\* operator rules wrapped by series_op_generic: the result of a binop.
BinopResult(fn, va, vb) ==
    LET dt == IF fn = "+" THEN "float64" ELSE "bool" IN
    IF fn # "+" /\ (va = string_series_type \/ vb = string_series_type) THEN bool_series
    ELSE IF fn # "+" /\ ((va = dt_index_series_type /\ vb = string_type)
                         \/ (vb = dt_index_series_type /\ va = string_type)) THEN bool_series
    ELSE IF fn # "+" /\ (va = string_array_type \/ vb = string_array_type) THEN bool_array
    ELSE IF IsSeries(va) \/ IsSeries(vb) THEN SeriesType(dt, 1, "C", FALSE, TRUE)
    ELSE IF IsArray(va) \/ IsArray(vb) THEN Array(dt, 1, "C", FALSE, TRUE)
    ELSE Scalar(dt)

\* get_array_index_type: an integer index gives the element, a slice or a
\* boolean mask gives an array of the same element type.
ArrayIndexResult(arr, idx) ==
    IF idx = intp THEN Scalar(arr.dtype)
    ELSE Array(arr.dtype, 1, IF idx = slice2_type THEN "A" ELSE "C", FALSE, TRUE)

\* GetItemSeries.generic
GetItemSeriesSig(in_arr, in_idx) ==
    IF ~IsSeries(in_arr)
    THEN Sig(ArrayIndexResult(in_arr, in_idx), <<in_arr, in_idx>>)
    ELSE LET arr == series_to_array_type(in_arr, FALSE)
             out == ArrayIndexResult(arr, in_idx)
             ret == IF IsArray(out) THEN arr_to_series_type(out) ELSE out
         IN  Sig(IF arr.dtype = "dt64" /\ ret = Scalar("dt64")
                 THEN pandas_timestamp_type ELSE ret,
                 <<in_arr, in_idx>>)

(***************************************************************************)
(* IR: variables, expressions, statements                                  *)
(***************************************************************************)

\* a variable of the function being compiled
V(b) == <<b, 0>>

Assign(target, value) == [kind |-> "assign", target |-> target, value |-> value]

Jump(label) == [kind |-> "jump", label |-> label]

Return(v) == [kind |-> "return", value |-> v]

\* a statement that is no ir.Assign (a setitem, a print, a del)
Other(tag) == [kind |-> "other", tag |-> tag]

Getattr(v, attr) == [op |-> "getattr", value |-> v, attr |-> attr]

Binop(fn, l, r, id) == [op |-> "binop", fn |-> fn, lhs |-> l, rhs |-> r, id |-> id]

Getitem(v, ix, id) == [op |-> "getitem", value |-> v, index |-> ix, id |-> id]

StaticGetitem(v, ix, id) == [op |-> "static_getitem", value |-> v, index_var |-> ix, id |-> id]

\* callname is what find_callname finds for the callee: <<name, module>>,
\* <<"?", "make_function">> for a closure, <<"?", "?">> when nothing is found
Call(f, args, kws, callname, id) ==
    [op |-> "call", func |-> f, args |-> args, kws |-> kws, callname |-> callname, id |-> id]

\* an ir.Var, ir.Const, ir.Arg or ir.Global on the right-hand side: no ir.Expr
VarRef(v) == [op |-> "var", name |-> v]

Const(c) == [op |-> "const", value |-> c]

BuildTuple(items) == [op |-> "build_tuple", items |-> items]

IsExpr(rhs) ==
    rhs.op \in {"getattr", "binop", "getitem", "static_getitem", "call", "cast", "build_tuple"}

RelOps == {"==", "!=", ">=", ">", "<=", "<"}

(***************************************************************************)
(* Typing of calls: Type.get_call_type for the callee types of the model   *)
(***************************************************************************)

DType(d) == [k |-> "DType", dtype |-> d]

float_series == SeriesType("float64", 1, "C", FALSE, TRUE)

float_array == Array("float64", 1, "C", FALSE, TRUE)

int_series == SeriesType("int64", 1, "C", FALSE, TRUE)

dt_array == Array("dt64", 1, "C", FALSE, TRUE)

\* the typers of hpat.hiframes_api, on the types of the arguments
ApiCallType(name, args) ==
    CASE name = "count" -> Sig(intp, args)
      [] name = "column_sum" -> Sig(Scalar(args[1].dtype), args)
      [] name \in {"mean", "var"} -> Sig(float64, args)
      [] name = "fillna" -> Sig(none_type, args)
      [] name \in {"str_contains_regex", "str_contains_noregex"} ->
            Sig(IF IsSeries(args[1]) THEN bool_series ELSE bool_array, args)
      [] name \in {"to_arr_from_series", "fix_df_array"} ->
            Sig(if_series_to_array_type(args[1], FALSE), args)
      [] name = "fix_rolling_array" -> Sig(float_array, args)
      [] name = "dummy_unbox_series" -> Sig(if_series_to_array_type(args[1], TRUE), args)
      [] OTHER -> NoneSig

\* the typers of hpat.pd_timestamp_ext and of pandas.DatetimeIndex: a
\* DatetimeIndex is typed as the dt_index series, the only source of
\* dt_index_series_type
DatetimeCallType(name, args) ==
    CASE name = "parse_datetime_str" -> Sig(Scalar("int64"), args)
      [] name = "convert_datetime64_to_timestamp" -> Sig(pandas_timestamp_type, args)
      [] name = "DatetimeIndex" -> Sig(dt_index_series_type, args)
      [] OTHER -> NoneSig

\* the typers of numpy, numba and builtin functions used here
LibCallType(name, args) ==
    CASE name = "len" -> Sig(intp, args)
      [] name = "empty" -> Sig(Array(args[2].dtype, 1, "C", FALSE, TRUE), args)
      [] name = "empty_inferred" -> Sig(Array("undefined", 1, "C", FALSE, TRUE), args)
      [] name = "empty_like" ->
            IF IsArray(args[1])
            THEN Sig(Array(args[1].dtype, args[1].ndim, "C", FALSE, TRUE), args)
            ELSE NoneSig
      [] name = "int64" -> Sig(Scalar("int64"), args)
      [] name = "astype" -> Sig(float_array, args)
      [] OTHER -> NoneSig

\* the array methods of ArrayAttribute / SeriesAttribute
MethodCallType(key, this, args) ==
    CASE key = <<"array", "sum">> -> Sig(Scalar(this.dtype), args)
      [] key = <<"array", "cumsum">> ->
            Sig(IF IsSeries(this) THEN SeriesType(this.dtype, 1, "C", FALSE, TRUE)
                ELSE Array(this.dtype, 1, "C", FALSE, TRUE), args)
      [] OTHER -> NoneSig

get_call_type(callee, args) ==
    CASE callee.k = "Function" /\ callee.mod = "hpat.hiframes_api" -> ApiCallType(callee.name, args)
      [] callee.k = "Function" /\ callee.mod \in {"hpat.pd_timestamp_ext", "pandas"} ->
            DatetimeCallType(callee.name, args)
      [] callee.k = "Function"
           /\ callee.mod \notin {"hpat.hiframes_api", "hpat.pd_timestamp_ext", "pandas"} ->
            LibCallType(callee.name, args)
      [] callee.k = "BoundFunction" -> MethodCallType(callee.typing_key, callee.this, args)
      [] OTHER -> NoneSig

\* the resolvers of ArrayAttribute: the bound method of an array
ArrayAttributeResolve(attr, this) == BoundFunction(<<"array", attr>>, this)

(***************************************************************************)
(* compile_to_numba_ir on the templates: the blocks of the typed template, *)
(* the types of its variables and the signatures of its calls.  n is the   *)
(* serial number that makes the template's variables unique.  Block j of   *)
(* a template has label j - 1; a loop is one block holding one statement.  *)
(***************************************************************************)

G(b, n) == <<b, n>>

FromEnd(body, j) == body[Len(body) - j + 1]

DropLast(body, j) == SubSeq(body, 1, Len(body) - j)

\* the end of a function that returns nothing: const None, cast, return
NoneReturn(n) ==
    << Assign(G("$const", n), Const("None")),
       Assign(G("$cast", n), [op |-> "cast", value |-> G("$const", n)]),
       Return(G("$cast", n)) >>

\* the end of a function that returns res
ResReturn(n, src) ==
    << Assign(G("res", n), VarRef(src)),
       Assign(G("$cast", n), [op |-> "cast", value |-> G("res", n)]),
       Return(G("$cast", n)) >>

Loop(n, bound, text) == [kind |-> "loop", index |-> G("i", n), bound |-> bound, body |-> text]

\* replace_arg_nodes: parameter j of the template is assigned argument j
ArgNodes(n, params, args) == [j \in 1..Len(params) |-> Assign(G(params[j], n), VarRef(args[j]))]

ArgTypes(n, params, typs) == [v \in {G(params[j], n) : j \in 1..Len(params)} |->
                                typs[CHOOSE j \in 1..Len(params) : G(params[j], n) = v]]

LibCall(n, name, mod, args) == Call(G("$" \o name, n), args, <<>>, <<name, mod>>, G(name, n))

\* the typemap and calltypes entries of one call of a template
CallTm(n, name, mod) == (G("$" \o name, n) :> Function(name, mod))

CallCt(n, name, mod, args, sig) == (G(name, n) :> [expr |-> LibCall(n, name, mod, args), sig |-> sig])

(***************************************************************************)
(* What _run_assign returns: a list of nodes, a dict of blocks, a pair     *)
(* (blocks, nodes), or an exception; with the typemap and the calltypes    *)
(* as the handler leaves them.                                             *)
(***************************************************************************)

OutList(nodes, tm, ct) ==
    [kind |-> "list", nodes |-> nodes, blocks |-> <<>>, post |-> <<>>, tm |-> tm, ct |-> ct, err |-> "none"]

OutDict(bs, tm, ct) ==
    [kind |-> "dict", nodes |-> <<>>, blocks |-> bs, post |-> <<>>, tm |-> tm, ct |-> ct, err |-> "none"]

OutTuple(bs, post, tm, ct) ==
    [kind |-> "tuple", nodes |-> <<>>, blocks |-> bs, post |-> post, tm |-> tm, ct |-> ct, err |-> "none"]

OutRaise(err, tm, ct) ==
    [kind |-> "raise", nodes |-> <<>>, blocks |-> <<>>, post |-> <<>>, tm |-> tm, ct |-> ct, err |-> err]

SetTarget(stmt, target) == [stmt EXCEPT !.target = target]

SetValue(stmt, v) == [stmt EXCEPT !.value = VarRef(v)]

\* arr = S.values
IsValuesGetattr(rhs, tm) ==
    rhs.op = "getattr" /\ IsSeries(tm[rhs.value]) /\ rhs.attr = "values"

HandleValues(assign, tm, ct) == OutList(<<SetValue(assign, assign.value.value)>>, tm, ct)

(***************************************************************************)
(* _handle_string_array_expr                                               *)
(***************************************************************************)

IsStringArrayExpr(rhs, tm) ==
    /\ rhs.op = "binop"
    /\ rhs.fn \in RelOps
    /\ (is_str_arr_typ(tm[rhs.lhs]) \/ is_str_arr_typ(tm[rhs.rhs]))

\* func_text: how the loop reads its operands and which length it takes
StringArrayExprText(t1, t2, fn) ==
    LET a1 == IF is_str_arr_typ(t1) THEN "A[i]" ELSE "A"
    IN  [len_call |-> IF is_str_arr_typ(t2) THEN "len(B)" ELSE "len(A)",
         arg1_access |-> IF is_str_arr_typ(t2) THEN "B[i]" ELSE a1,
         fn |-> fn,
         arg2_access |-> "B"]

\* the type of an operand as the loop body reads it
AccessType(access, pa, pb) ==
    LET t == IF access \in {"A", "A[i]"} THEN pa ELSE pb
    IN  IF access \in {"A", "B"} THEN t
        ELSE IF t = string_array_type THEN string_type
        ELSE IF IsArray(t) THEN Scalar(t.dtype)
        ELSE none_type

\* CmpOpEqStringArray.generic, and the comparison of two strings
CmpType(va, vb) ==
    IF va = string_array_type \/ vb = string_array_type
    THEN (IF (is_str_arr_typ(va) \/ va = string_type) /\ (is_str_arr_typ(vb) \/ vb = string_type)
          THEN bool_array ELSE none_type)
    ELSE IF va = string_type /\ vb = string_type THEN Scalar("bool")
    ELSE none_type

\* S[i] = <arg1_access> fn <arg2_access> types only if the right side is a boolean
TextTypes(text, pa, pb) ==
    CmpType(AccessType(text.arg1_access, pa, pb), AccessType(text.arg2_access, pa, pb))
        = Scalar("bool")

\* _handle_string_array_expr if it replaced the type of the target as well
MutHandleStringArrayExprTarget(assign, tm, ct, n) ==
    LET rhs == assign.value
        arg1 == rhs.lhs
        arg2 == rhs.rhs
        text == StringArrayExprText(tm[arg1], tm[arg2], rhs.fn)
        tm1 == IF is_str_arr_typ(tm[arg1]) THEN [tm EXCEPT ![arg1] = string_array_type] ELSE tm
        tm12 == IF is_str_arr_typ(tm1[arg2]) THEN [tm1 EXCEPT ![arg2] = string_array_type] ELSE tm1
        tm2 == [tm12 EXCEPT ![assign.target] = if_series_to_array_type(tm12[assign.target], FALSE)]
        pa == if_series_to_array_type(tm2[arg1], FALSE)
        pb == if_series_to_array_type(tm2[arg2], FALSE)
        lenarg == IF text.len_call = "len(A)" THEN G("A", n) ELSE G("B", n)
        f_blocks ==
            << ArgNodes(n, <<"A", "B">>, <<arg1, arg2>>)
                 \o << Assign(G("l", n), LibCall(n, "len", "builtins", <<lenarg>>)),
                       Assign(G("S", n), LibCall(n, "empty", "numpy", <<G("l", n), G("bool_", n)>>)),
                       Jump(1) >>,
               << Loop(n, G("l", n), text), Jump(2) >>,
               NoneReturn(n) >>
        newtm == ArgTypes(n, <<"A", "B">>, <<pa, pb>>)
                   @@ (G("l", n) :> intp) @@ (G("S", n) :> bool_array) @@ (G("i", n) :> intp)
                   @@ (G("bool_", n) :> DType("bool"))
                   @@ CallTm(n, "len", "builtins") @@ CallTm(n, "empty", "numpy")
        newct == CallCt(n, "len", "builtins", <<lenarg>>,
                        Sig(intp, <<IF text.len_call = "len(A)" THEN pa ELSE pb>>))
                   @@ CallCt(n, "empty", "numpy", <<G("l", n), G("bool_", n)>>,
                             Sig(bool_array, <<intp, DType("bool")>>))
    IN  IF ~TextTypes(text, pa, pb)
        THEN OutRaise("TypingError", tm2, ct)
        ELSE OutTuple(f_blocks, <<SetValue(assign, FromEnd(f_blocks[1], 2).target)>>,
                      newtm @@ tm2, newct @@ ct)

HandleStringArrayExpr(assign, tm, ct, n) ==
    LET rhs == assign.value
        arg1 == rhs.lhs
        arg2 == rhs.rhs
        text == StringArrayExprText(tm[arg1], tm[arg2], rhs.fn)
        tm1 == IF is_str_arr_typ(tm[arg1]) THEN [tm EXCEPT ![arg1] = string_array_type] ELSE tm
        tm2 == IF is_str_arr_typ(tm1[arg2]) THEN [tm1 EXCEPT ![arg2] = string_array_type] ELSE tm1
        pa == if_series_to_array_type(tm2[arg1], FALSE)
        pb == if_series_to_array_type(tm2[arg2], FALSE)
        lenarg == IF text.len_call = "len(A)" THEN G("A", n) ELSE G("B", n)
        f_blocks ==
            << ArgNodes(n, <<"A", "B">>, <<arg1, arg2>>)
                 \o << Assign(G("l", n), LibCall(n, "len", "builtins", <<lenarg>>)),
                       Assign(G("S", n), LibCall(n, "empty", "numpy", <<G("l", n), G("bool_", n)>>)),
                       Jump(1) >>,
               << Loop(n, G("l", n), text), Jump(2) >>,
               NoneReturn(n) >>
        newtm == ArgTypes(n, <<"A", "B">>, <<pa, pb>>)
                   @@ (G("l", n) :> intp) @@ (G("S", n) :> bool_array) @@ (G("i", n) :> intp)
                   @@ (G("bool_", n) :> DType("bool"))
                   @@ CallTm(n, "len", "builtins") @@ CallTm(n, "empty", "numpy")
        newct == CallCt(n, "len", "builtins", <<lenarg>>,
                        Sig(intp, <<IF text.len_call = "len(A)" THEN pa ELSE pb>>))
                   @@ CallCt(n, "empty", "numpy", <<G("l", n), G("bool_", n)>>,
                             Sig(bool_array, <<intp, DType("bool")>>))
    IN  IF ~TextTypes(text, pa, pb)
        THEN OutRaise("TypingError", tm2, ct)
        ELSE OutTuple(f_blocks, <<SetValue(assign, FromEnd(f_blocks[1], 2).target)>>,
                      newtm @@ tm2, newct @@ ct)

(***************************************************************************)
(* _handle_df_col_filter: df['col2'] = df['col1'][arr]                     *)
(***************************************************************************)

is_bool_arr(v, tm) == IsArray(tm[v]) /\ tm[v].dtype = "bool"

IsDfColFilter(lhs, rhs, tm, cols) ==
    /\ rhs.op = "getitem"
    /\ rhs.value \in cols
    /\ lhs \in cols
    /\ is_bool_arr(rhs.index, tm)

HandleDfColFilter(assign, tm, ct, n) ==
    LET rhs == assign.value
        lhs == assign.target
        in_arr == rhs.value
        index_var == rhs.index
        typs == << if_series_to_array_type(tm[lhs], FALSE),
                   if_series_to_array_type(tm[in_arr], FALSE), tm[index_var] >>
        \* gen_np_call('empty_like', np.empty_like, lhs, [in_arr], ...)
        alloc_nodes == << Assign(lhs, LibCall(n, "empty_like", "numpy", <<in_arr>>)) >>
        f_blocks ==
            << alloc_nodes \o ArgNodes(n, <<"A", "B", "ind">>, <<lhs, in_arr, index_var>>)
                 \o << Jump(1) >>,
               << Loop(n, G("A", n), "A[i] = B[i] if ind[i] else nan"), Jump(2) >>,
               NoneReturn(n) >>
        newtm == ArgTypes(n, <<"A", "B", "ind">>, typs) @@ (G("i", n) :> intp)
                   @@ CallTm(n, "empty_like", "numpy")
        newct == CallCt(n, "empty_like", "numpy", <<in_arr>>,
                        LibCallType("empty_like", <<tm[in_arr]>>))
    IN  OutDict(f_blocks, newtm @@ tm, newct @@ ct)

(***************************************************************************)
(* getitem on a dt_index / dt64 series: _run_assign, lines 143-165         *)
(***************************************************************************)

IsDtGetitem(rhs, tm) ==
    rhs.op \in {"getitem", "static_getitem"} /\ tm[rhs.value] = dt_index_series_type

HandleDtGetitem(assign, tm, ct, n) ==
    LET rhs == assign.value
        ind_var == IF rhs.op = "getitem" THEN rhs.index ELSE rhs.index_var
        in_arr == rhs.value
        body == ArgNodes(n, <<"_in_arr", "_ind">>, <<in_arr, ind_var>>)
                  \o << Assign(G("dt", n), Getitem(G("_in_arr", n), G("_ind", n), G("getitem", n))),
                        Assign(G("s", n), LibCall(n, "int64", "numpy", <<G("dt", n)>>)),
                        Assign(G("res", n),
                               LibCall(n, "convert_datetime64_to_timestamp",
                                       "hpat.pd_timestamp_ext", <<G("s", n)>>)) >>
                  \o NoneReturn(n)
        nodes == DropLast(body, 3)
        pa == if_series_to_array_type(tm[in_arr], FALSE)
        newtm == ArgTypes(n, <<"_in_arr", "_ind">>, <<pa, intp>>)
                   @@ (G("dt", n) :> Scalar("dt64")) @@ (G("s", n) :> Scalar("int64"))
                   @@ (G("res", n) :> pandas_timestamp_type)
                   @@ CallTm(n, "int64", "numpy")
                   @@ CallTm(n, "convert_datetime64_to_timestamp", "hpat.pd_timestamp_ext")
        newct == (G("getitem", n) :>
                     [expr |-> Getitem(G("_in_arr", n), G("_ind", n), G("getitem", n)),
                      sig |-> Sig(Scalar("dt64"), <<pa, intp>>)])
                   @@ CallCt(n, "int64", "numpy", <<G("dt", n)>>,
                             Sig(Scalar("int64"), <<Scalar("dt64")>>))
                   @@ CallCt(n, "convert_datetime64_to_timestamp", "hpat.pd_timestamp_ext",
                             <<G("s", n)>>, Sig(pandas_timestamp_type, <<Scalar("int64")>>))
    IN  IF tm[ind_var] # intp
        THEN OutRaise("AssertionError", tm, ct)
        ELSE OutList([nodes EXCEPT ![Len(nodes)] = SetTarget(nodes[Len(nodes)], assign.target)],
                     newtm @@ tm, newct @@ ct)

(***************************************************************************)
(* _is_dt_index_binop, _handle_dt_index_binop                              *)
(***************************************************************************)

\* _is_dt_index_binop without the test that the operands are not both dt_index
MutIsDtIndexBinopEither(rhs, tm) ==
    IF rhs.op # "binop" THEN FALSE
    ELSE IF rhs.fn \notin RelOps THEN FALSE
    ELSE tm[rhs.lhs] = dt_index_series_type \/ tm[rhs.rhs] = dt_index_series_type

is_dt_index_binop(rhs, tm) ==
    IF rhs.op # "binop" THEN FALSE
    ELSE IF rhs.fn \notin RelOps THEN FALSE
    ELSE LET arg1 == tm[rhs.lhs]
             arg2 == tm[rhs.rhs]
         IN  /\ (arg1 = dt_index_series_type \/ arg2 = dt_index_series_type)
             /\ ~(arg1 = dt_index_series_type /\ arg2 = dt_index_series_type)

MutDtIndexBinopText(t1, fn) ==
    [dt_index |-> IF t1 = dt_index_series_type THEN "arg1" ELSE "arg2",
     str |-> IF t1 = dt_index_series_type THEN "arg2" ELSE "arg1",
     left |-> "dt_index[i]", fn |-> fn, right |-> "other"]

\* func_text: which argument is the index, which the string, and the comparison
DtIndexBinopText(t1, fn) ==
    IF t1 = dt_index_series_type
    THEN [dt_index |-> "arg1", str |-> "arg2", left |-> "dt_index[i]", fn |-> fn, right |-> "other"]
    ELSE [dt_index |-> "arg2", str |-> "arg1", left |-> "other", fn |-> fn, right |-> "dt_index[i]"]

HandleDtIndexBinop(assign, tm, ct, n) ==
    LET rhs == assign.value
        arg1 == rhs.lhs
        arg2 == rhs.rhs
        allowed_types == {dt_index_series_type, string_type}
        text == DtIndexBinopText(tm[arg1], rhs.fn)
        pa == if_series_to_array_type(tm[arg1], FALSE)
        pb == if_series_to_array_type(tm[arg2], FALSE)
        dtv == G("dt_index", n)
        f_blocks ==
            << ArgNodes(n, <<"arg1", "arg2">>, <<arg1, arg2>>)
                 \o << Assign(dtv, VarRef(G(text.dt_index, n))),
                       Assign(G("_str", n), VarRef(G(text.str, n))),
                       Assign(G("l", n), LibCall(n, "len", "builtins", <<dtv>>)),
                       Assign(G("other", n),
                              LibCall(n, "parse_datetime_str", "hpat.pd_timestamp_ext",
                                      <<G("_str", n)>>)),
                       Assign(G("S", n),
                              LibCall(n, "empty_inferred", "numba.unsafe.ndarray", <<G("l", n)>>)),
                       Jump(1) >>,
               << Loop(n, G("l", n), text), Jump(2) >>,
               NoneReturn(n) >>
        newtm == ArgTypes(n, <<"arg1", "arg2">>, <<pa, pb>>)
                   @@ (dtv :> dt_array) @@ (G("_str", n) :> string_type)
                   @@ (G("l", n) :> intp) @@ (G("other", n) :> Scalar("int64"))
                   @@ (G("S", n) :> bool_array) @@ (G("i", n) :> intp)
                   @@ CallTm(n, "len", "builtins")
                   @@ CallTm(n, "parse_datetime_str", "hpat.pd_timestamp_ext")
                   @@ CallTm(n, "empty_inferred", "numba.unsafe.ndarray")
        newct == CallCt(n, "len", "builtins", <<dtv>>, Sig(intp, <<dt_array>>))
                   @@ CallCt(n, "parse_datetime_str", "hpat.pd_timestamp_ext", <<G("_str", n)>>,
                             Sig(Scalar("int64"), <<string_type>>))
                   @@ CallCt(n, "empty_inferred", "numba.unsafe.ndarray", <<G("l", n)>>,
                             Sig(bool_array, <<intp>>))
    IN  IF tm[arg1] \notin allowed_types \/ tm[arg2] \notin allowed_types
        THEN OutRaise("ValueError", tm, ct)
        ELSE OutTuple(f_blocks, <<SetValue(assign, FromEnd(f_blocks[1], 2).target)>>,
                      newtm @@ tm, newct @@ ct)

(***************************************************************************)
(* The handlers of calls                                                   *)
(***************************************************************************)

\* _handle_empty_like: B = empty_like(A) -> B = empty(len(A), dtype)
HandleEmptyLike(assign, tm, ct, n) ==
    LET rhs == assign.value
        in_arr == rhs.args[1]
        pa == if_series_to_array_type(tm[in_arr], FALSE)
        one_d == tm[in_arr].ndim = 1
        size == IF one_d THEN LibCall(n, "len", "builtins", <<G("_in_arr", n)>>)
                ELSE Getattr(G("_in_arr", n), "shape")
        body == ArgNodes(n, <<"_in_arr">>, <<in_arr>>)
                  \o << Assign(G("_alloc_size", n), size),
                        Assign(G("$dtype", n), Getattr(G("_in_arr", n), "dtype")),
                        Assign(G("_out_arr", n),
                               LibCall(n, "empty", "numpy", <<G("_alloc_size", n), G("$dtype", n)>>)) >>
                  \o NoneReturn(n)
        nodes == DropLast(body, 3)
        sizet == IF one_d THEN intp ELSE TupleType(<<intp, intp>>)
        outt == Array(pa.dtype, pa.ndim, "C", FALSE, TRUE)
        newtm == ArgTypes(n, <<"_in_arr">>, <<pa>>)
                   @@ (G("_alloc_size", n) :> sizet) @@ (G("$dtype", n) :> DType(pa.dtype))
                   @@ (G("_out_arr", n) :> outt)
                   @@ CallTm(n, "len", "builtins") @@ CallTm(n, "empty", "numpy")
        newct == (IF one_d THEN CallCt(n, "len", "builtins", <<G("_in_arr", n)>>, Sig(intp, <<pa>>))
                  ELSE <<>>)
                   @@ CallCt(n, "empty", "numpy", <<G("_alloc_size", n), G("$dtype", n)>>,
                             Sig(outt, <<sizet, DType(pa.dtype)>>))
    IN  OutList([nodes EXCEPT ![Len(nodes)] = SetTarget(nodes[Len(nodes)], assign.target)],
                newtm @@ tm, newct @@ ct)

\* _handle_str_contains
HandleStrContains(assign, tm, ct, n, fname) ==
    LET rhs == assign.value
        str_arr == rhs.args[1]
        pat == rhs.args[2]
        comp_func == IF fname = "str_contains_regex" THEN "contains_regex" ELSE "contains_noregex"
        pa == if_series_to_array_type(tm[str_arr], FALSE)
        pb == if_series_to_array_type(tm[pat], FALSE)
        f_blocks ==
            << ArgNodes(n, <<"str_arr", "pat">>, <<str_arr, pat>>)
                 \o << Assign(G("l", n), LibCall(n, "len", "builtins", <<G("str_arr", n)>>)),
                       Assign(G("S", n), LibCall(n, "empty", "numpy", <<G("l", n), G("bool_", n)>>)),
                       Jump(1) >>,
               << Loop(n, G("l", n), [func |-> comp_func, arg1_access |-> "str_arr[i]",
                                      arg2_access |-> "pat"]),
                  Jump(2) >>,
               NoneReturn(n) >>
        newtm == ArgTypes(n, <<"str_arr", "pat">>, <<pa, pb>>)
                   @@ (G("l", n) :> intp) @@ (G("S", n) :> bool_array) @@ (G("i", n) :> intp)
                   @@ (G("bool_", n) :> DType("bool"))
                   @@ CallTm(n, "len", "builtins") @@ CallTm(n, "empty", "numpy")
        newct == CallCt(n, "len", "builtins", <<G("str_arr", n)>>, Sig(intp, <<pa>>))
                   @@ CallCt(n, "empty", "numpy", <<G("l", n), G("bool_", n)>>,
                             Sig(bool_array, <<intp, DType("bool")>>))
    IN  OutTuple(f_blocks, <<SetValue(assign, FromEnd(f_blocks[1], 2).target)>>,
                 newtm @@ tm, newct @@ ct)

\* the reduction templates _column_count_impl, _column_sum_impl,
\* _column_mean_impl, _column_var_impl as compiled blocks
ReductionBlocks(n, func_name, in_arr) ==
    LET first == ArgNodes(n, <<"A">>, <<in_arr>>)
                   \o << Assign(G("count", n), Const(0)), Assign(G("s", n), Const(0)), Jump(1) >>
        loop1 == << Loop(n, G("A", n), "if not isnan(A[i]): s += A[i]; count += 1"), Jump(2) >>
        loop2 == << Assign(G("m", n),
                           LibCall(n, "_mean_handle_nan", "hpat.hiframes_typed",
                                   <<G("s", n), G("count", n)>>)),
                    Loop(n, G("A", n), "if not isnan(A[i]): s += (A[i] - m)**2; count += 1"),
                    Jump(3) >>
        fin == IF func_name = "count" THEN "count"
               ELSE IF func_name = "column_sum" THEN "_sum_handle_nan"
               ELSE IF func_name = "mean" THEN "_mean_handle_nan" ELSE "_var_handle_nan"
        last == IF func_name = "count"
                THEN ResReturn(n, G("count", n))
                ELSE << Assign(G("$res", n),
                               LibCall(n, fin, "hpat.hiframes_typed", <<G("s", n), G("count", n)>>)) >>
                       \o ResReturn(n, G("$res", n))
    IN  IF func_name = "var" THEN << first, loop1, loop2, last >> ELSE << first, loop1, last >>

\* _handle_df_col_calls giving back the blocks of the template as they are
MutHandleDfColCallsNoTarget(assign, tm, ct, n, func_name) ==
    IF func_name \in {"count", "column_sum", "mean", "var"}
    THEN OutDict(ReductionBlocks(n, func_name, assign.value.args[1]), tm, ct)
    ELSE OutList(<<assign>>, tm, ct)

\* _handle_df_col_calls
HandleDfColCalls(assign, tm, ct, n, func_name) ==
    LET rhs == assign.value
    IN  IF func_name \in {"count", "column_sum", "mean", "var"}
        THEN LET in_arr == rhs.args[1]
                 pa == if_series_to_array_type(tm[in_arr], FALSE)
                 f_blocks == ReductionBlocks(n, func_name, in_arr)
                 m == Len(f_blocks)
                 last_block == f_blocks[m]
                 k == Len(last_block) - 2
                 rt == IF func_name = "count" THEN intp ELSE float64
                 newtm == ArgTypes(n, <<"A">>, <<pa>>) @@ (G("count", n) :> intp)
                            @@ (G("s", n) :> float64) @@ (G("i", n) :> intp)
                            @@ (G("res", n) :> rt)
             IN  OutDict([f_blocks EXCEPT ![m] =
                             [last_block EXCEPT ![k] = SetTarget(last_block[k], assign.target)]],
                         newtm @@ tm, ct)
        ELSE IF func_name = "fillna"
        THEN LET out_arr == rhs.args[1]
                 in_arr == rhs.args[2]
                 val == rhs.args[3]
                 typs == << if_series_to_array_type(tm[out_arr], FALSE),
                            if_series_to_array_type(tm[in_arr], FALSE),
                            if_series_to_array_type(tm[val], FALSE) >>
                 f_blocks ==
                     << ArgNodes(n, <<"A", "B", "fill">>, <<out_arr, in_arr, val>>) \o << Jump(1) >>,
                        << Loop(n, G("A", n), "s = B[i]; if isnan(s): s = fill; A[i] = s"), Jump(2) >>,
                        NoneReturn(n) >>
                 newtm == ArgTypes(n, <<"A", "B", "fill">>, typs) @@ (G("i", n) :> intp)
             IN  OutDict(f_blocks, newtm @@ tm, ct)
        ELSE OutList(<<assign>>, tm, ct)

\* _run_call_hiframes
RunCallHiframes(assign, tm, ct, n, func_name) ==
    LET rhs == assign.value
    IN  IF func_name \in {"to_series_type", "to_arr_from_series"}
        THEN OutList(<<SetValue(assign, rhs.args[1])>>, tm, ct)
        ELSE IF func_name \in {"str_contains_regex", "str_contains_noregex"}
        THEN HandleStrContains(assign, tm, ct, n, func_name)
        ELSE IF func_name = "fix_df_array" /\ tm[rhs.args[1]].k \in {"Array", "StringArray"}
        THEN OutList(<<SetValue(assign, rhs.args[1])>>, tm, ct)
        ELSE IF func_name = "fix_rolling_array"
        THEN LET in_arr == rhs.args[1]
                 pa == if_series_to_array_type(tm[in_arr], FALSE)
                 body == ArgNodes(n, <<"column">>, <<in_arr>>)
                           \o << Assign(G("a", n), LibCall(n, "astype", "ndarray", <<G("column", n)>>)) >>
                           \o NoneReturn(n)
                 nodes == DropLast(body, 3)
                 newtm == ArgTypes(n, <<"column">>, <<pa>>) @@ (G("a", n) :> float_array)
                            @@ CallTm(n, "astype", "ndarray")
                 newct == CallCt(n, "astype", "ndarray", <<G("column", n)>>, Sig(float_array, <<pa>>))
             IN  IF tm[in_arr].dtype = "float64"
                 THEN OutList(<<SetValue(assign, rhs.args[1])>>, tm, ct)
                 ELSE OutList([nodes EXCEPT ![Len(nodes)] = SetTarget(nodes[Len(nodes)], assign.target)],
                              newtm @@ tm, newct @@ ct)
        ELSE HandleDfColCalls(assign, tm, ct, n, func_name)

\* _run_pd_DatetimeIndex: pd.DatetimeIndex() with a string array argument
RunPdDatetimeIndex(assign, tm, ct, n) ==
    LET rhs == assign.value
        lhs == assign.target
        has_data == \E j \in 1..Len(rhs.kws) : rhs.kws[j][1] = "data"
        data == IF has_data
                THEN rhs.kws[CHOOSE j \in 1..Len(rhs.kws) : rhs.kws[j][1] = "data"][2]
                ELSE rhs.args[1]
        pa == if_series_to_array_type(tm[data], FALSE)
        f_blocks ==
            << ArgNodes(n, <<"str_arr">>, <<data>>)
                 \o << Assign(G("n", n), LibCall(n, "len", "builtins", <<G("str_arr", n)>>)),
                       Assign(G("S", n),
                              LibCall(n, "empty_inferred", "numba.unsafe.ndarray", <<G("n", n)>>)),
                       Jump(1) >>,
               << Loop(n, G("n", n), "S[i] = parse_datetime_str(str_arr[i])"), Jump(2) >>,
               << Assign(G("ret", n), VarRef(G("S", n))) >> \o NoneReturn(n) >>
        last_block == f_blocks[3]
        k == Len(last_block) - 3
        newtm == ArgTypes(n, <<"str_arr">>, <<pa>>) @@ (G("n", n) :> intp)
                   @@ (G("S", n) :> dt_array) @@ (G("i", n) :> intp) @@ (G("ret", n) :> dt_array)
                   @@ CallTm(n, "len", "builtins")
                   @@ CallTm(n, "empty_inferred", "numba.unsafe.ndarray")
        newct == CallCt(n, "len", "builtins", <<G("str_arr", n)>>, Sig(intp, <<pa>>))
                   @@ CallCt(n, "empty_inferred", "numba.unsafe.ndarray", <<G("n", n)>>,
                             Sig(dt_array, <<intp>>))
    IN  IF (has_data /\ Len(rhs.args) # 0) \/ (~has_data /\ Len(rhs.args) # 1)
        THEN OutRaise("ValueError", tm, ct)
        ELSE OutDict([f_blocks EXCEPT ![3] =
                         [last_block EXCEPT ![k] = SetTarget(last_block[k], lhs)]],
                     newtm @@ tm, newct @@ ct)

(***************************************************************************)
(* _run_assign: which handler takes a statement, in the order of the code  *)
(***************************************************************************)

CallName(rhs) == rhs.callname

Resolved(rhs) == rhs.callname[1] # "?"

\* _run_assign with the getitem on a dt_index tried before the filter
MutDispatchDtGetitemFirst(assign, tm, cols) ==
    LET rhs == assign.value
        lhs == assign.target
    IN  IF ~IsExpr(rhs) THEN "unchanged"
        ELSE IF IsValuesGetattr(rhs, tm) THEN "values"
        ELSE IF IsStringArrayExpr(rhs, tm) THEN "string_array_expr"
        ELSE IF IsDtGetitem(rhs, tm) THEN "dt_getitem"
        ELSE IF IsDfColFilter(lhs, rhs, tm, cols) THEN "df_col_filter"
        ELSE IF rhs.op = "call" /\ ~Resolved(rhs) THEN "call_unresolved"
        ELSE IF rhs.op = "call" /\ CallName(rhs) = <<"DatetimeIndex", "pandas">> THEN "DatetimeIndex"
        ELSE IF rhs.op = "call" /\ CallName(rhs)[2] = "hpat.hiframes_api" THEN "hiframes_call"
        ELSE IF rhs.op = "call" /\ CallName(rhs) = <<"empty_like", "numpy">> THEN "empty_like"
        ELSE IF is_dt_index_binop(rhs, tm) THEN "dt_index_binop"
        ELSE "unchanged"

Dispatch(assign, tm, cols) ==
    LET rhs == assign.value
        lhs == assign.target
    IN  IF ~IsExpr(rhs) THEN "unchanged"
        ELSE IF IsValuesGetattr(rhs, tm) THEN "values"
        ELSE IF IsStringArrayExpr(rhs, tm) THEN "string_array_expr"
        ELSE IF IsDfColFilter(lhs, rhs, tm, cols) THEN "df_col_filter"
        ELSE IF IsDtGetitem(rhs, tm) THEN "dt_getitem"
        ELSE IF rhs.op = "call" /\ ~Resolved(rhs) THEN "call_unresolved"
        ELSE IF rhs.op = "call" /\ CallName(rhs) = <<"DatetimeIndex", "pandas">> THEN "DatetimeIndex"
        ELSE IF rhs.op = "call" /\ CallName(rhs)[2] = "hpat.hiframes_api" THEN "hiframes_call"
        ELSE IF rhs.op = "call" /\ CallName(rhs) = <<"empty_like", "numpy">> THEN "empty_like"
        ELSE IF is_dt_index_binop(rhs, tm) THEN "dt_index_binop"
        ELSE "unchanged"

(***************************************************************************)
(* include_new_blocks (hpat/hiframes.py): splice generated blocks in       *)
(***************************************************************************)

AddOffset(body, offset) ==
    [j \in 1..Len(body) |->
        IF body[j].kind = "jump" THEN Jump(body[j].label + offset) ELSE body[j]]

IsConstNone(stmt) == stmt.kind = "assign" /\ stmt.value.op = "const" /\ stmt.value.value = "None"

\* remove the return, the cast and, when there is one, the const None
remove_none_return_from_block(body) ==
    LET b2 == DropLast(body, 2)
    IN  IF Len(b2) > 0 /\ IsConstNone(b2[Len(b2)]) THEN DropLast(b2, 1) ELSE b2

\* the blocks after the splice, the label of the new empty block that
\* continues the truncated one, and the new greatest label
include_new_blocks(bs, new_blocks, lab, nb, ml) ==
    LET m == Len(new_blocks)
        offset == ml + 1
        newlab == offset + m
        inner(j) == IF j = m
                    THEN remove_none_return_from_block(AddOffset(new_blocks[j], offset))
                           \o << Jump(newlab) >>
                    ELSE AddOffset(new_blocks[j], offset)
    IN  [blocks |-> [l \in DOMAIN bs \cup (offset..newlab) |->
                        IF l = lab THEN nb \o << Jump(offset) >>
                        ELSE IF l = newlab THEN <<>>
                        ELSE IF l >= offset THEN inner(l - offset + 1)
                        ELSE bs[l]],
         label |-> newlab,
         max_label |-> newlab]

(***************************************************************************)
(* _fix_typ_undefs                                                         *)
(***************************************************************************)

AssertionFailed == [k |-> "AssertionError"]

MinLen(a, b) == IF Len(a) <= Len(b) THEN Len(a) ELSE Len(b)

\* copy(dtype) of an Array or a SeriesType
CopyDtype(t, d) == [t EXCEPT !.dtype = d]

\* _fix_typ_undefs without the copy of the old dtype
MutFixTypUndefsNoCopy(new_typ, old_typ) ==
    IF old_typ.k \in {"Array", "Series"} /\ new_typ.k \notin {"Array", "Series"}
    THEN AssertionFailed
    ELSE new_typ

\* _fix_typ_undefs that copies the old dtype whether the new one is defined or not
MutFixTypUndefsAlwaysOld(new_typ, old_typ) ==
    IF old_typ.k \in {"Array", "Series"} /\ new_typ.k \notin {"Array", "Series"}
    THEN AssertionFailed
    ELSE IF old_typ.k \in {"Array", "Series"}
    THEN CopyDtype(new_typ, old_typ.dtype)
    ELSE new_typ

RECURSIVE fix_typ_undefs(_, _)
fix_typ_undefs(new_typ, old_typ) ==
    IF old_typ.k \in {"Array", "Series"} /\ new_typ.k \notin {"Array", "Series"}
    THEN AssertionFailed
    ELSE IF old_typ.k \in {"Array", "Series"} /\ new_typ.dtype = "undefined"
    THEN CopyDtype(new_typ, old_typ.dtype)
    ELSE IF IsTuple(old_typ)
    THEN TupleType([j \in 1..MinLen(new_typ.types, old_typ.types) |->
                      fix_typ_undefs(new_typ.types[j], old_typ.types[j])])
    ELSE new_typ

RECURSIVE HasFailed(_)
HasFailed(t) ==
    \/ t = AssertionFailed
    \/ IsTuple(t) /\ \E j \in 1..Len(t.types) : HasFailed(t.types[j])

(***************************************************************************)
(* The functions the pass is run on.  A function has two blocks: block 0   *)
(* holds one statement of Catalog, with statements of Pads before and      *)
(* after it, and jumps to block 1, which holds statements of Pads and      *)
(* returns.  The variables of Pool have the types type inference gave.     *)
(***************************************************************************)

\* how many statements of Pads a function has at most
MaxPad == 1

Pool ==
    [b \in {"S", "A", "s", "D", "F", "I", "AF", "A2", "M", "i", "sl", "x", "BX", "TS", "TT"} |->
        CASE b = "S" -> string_series_type
          [] b = "A" -> string_array_type
          [] b = "s" -> string_type
          [] b = "D" -> dt_index_series_type
          [] b = "F" -> float_series
          [] b = "I" -> int_series
          [] b = "AF" -> float_array
          [] b = "A2" -> Array("float64", 2, "C", FALSE, TRUE)
          [] b = "M" -> bool_array
          [] b = "i" -> intp
          [] b = "sl" -> slice2_type
          [] b = "x" -> float64
          [] b = "BX" -> BoxedSeriesType("float64")
          [] b = "TS" -> TupleType(<<float_series, intp>>)
          [] b = "TT" -> TupleType(<<TupleType(<<string_series_type>>), intp>>)]

\* the target, the callee and the expression identity of the statement at serial q
T(q) == <<"t", q>>

C(q) == <<"c", q>>

FV(q) == <<"$f", q>>

E(q) == <<"e", q>>

\* a statement with the typemap and calltypes entries it brings
Entry(stmt, ttype, uses, ftype, sig) ==
    [stmt |-> stmt,
     tm |-> (stmt.target :> ttype)
              @@ [v \in {V(b) : b \in uses} |-> Pool[v[1]]]
              @@ (IF stmt.value.op = "call" THEN (stmt.value.func :> ftype) ELSE <<>>),
     ct |-> IF sig = NoneSig /\ stmt.value.op \notin {"call", "binop", "getitem", "static_getitem"}
            THEN <<>>
            ELSE (stmt.value.id :> [expr |-> stmt.value, sig |-> sig])]

GetattrEntries ==
    {Entry(Assign(T(0), Getattr(V(b), "values")), series_to_array_type(Pool[b], TRUE),
           {b}, none_type, NoneSig) : b \in {"S", "F", "D"}}
    \cup {Entry(Assign(T(0), Getattr(V(p[1]), p[2])), BoundFunction(<<"array", p[2]>>, Pool[p[1]]),
                {p[1]}, none_type, NoneSig) :
            p \in {<<"F", "sum">>, <<"F", "cumsum">>, <<"AF", "sum">>, <<"S", "copy">>}}
    \cup {Entry(Assign(T(0), BuildTuple(<<V(b), V("i")>>)), TupleType(<<Pool[b], intp>>),
                {b, "i"}, none_type, NoneSig) : b \in {"F", "TS", "AF"}}

RelPairs ==
    {<<"S", "s">>, <<"s", "S">>, <<"S", "S">>, <<"A", "s">>, <<"s", "A">>, <<"A", "A">>,
     <<"S", "A">>, <<"s", "s">>,
     <<"D", "s">>, <<"s", "D">>, <<"D", "D">>, <<"D", "i">>, <<"i", "D">>, <<"D", "F">>,
     <<"D", "A">>,
     <<"F", "F">>, <<"F", "x">>, <<"AF", "AF">>}

PlusPairs == {<<"F", "F">>, <<"AF", "x">>, <<"D", "D">>}

\* the comparison operators the functions use
CatalogOps == {"==", ">="}

BinopEntry(fn, p) ==
    LET r == BinopResult(fn, Pool[p[1]], Pool[p[2]])
    IN  Entry(Assign(T(0), Binop(fn, V(p[1]), V(p[2]), E(0))), r, {p[1], p[2]}, none_type,
              Sig(r, <<Pool[p[1]], Pool[p[2]]>>))

BinopEntries ==
    {BinopEntry(fn, p) : fn \in CatalogOps, p \in RelPairs}
    \cup {BinopEntry("+", p) : p \in PlusPairs}

GetitemEntry(target, b, ix, static) ==
    LET sig == GetItemSeriesSig(Pool[b], Pool[ix])
    IN  Entry(Assign(target, IF static THEN StaticGetitem(V(b), V(ix), E(0))
                             ELSE Getitem(V(b), V(ix), E(0))),
              sig.return_type, {b, ix}, none_type, sig)

GetitemEntries ==
    {GetitemEntry(T(0), b, ix, st) : b \in {"D", "F", "AF"}, ix \in {"i", "sl"}, st \in BOOLEAN}
    \cup {GetitemEntry(tg, b, "M", FALSE) : b \in {"D", "F", "AF"}, tg \in {T(0), C(0)}}
    \cup {Entry(Assign(T(0), StaticGetitem(V("TT"), V("i"), E(0))), Pool["TT"].types[1],
                {"TT", "i"}, none_type, Sig(Pool["TT"].types[1], <<Pool["TT"], intp>>))}

CallEntry(name, mod, args, kws, ftype, sig) ==
    LET argv == [j \in 1..Len(args) |-> V(args[j])]
        kwv == [j \in 1..Len(kws) |-> <<kws[j][1], V(kws[j][2])>>]
    IN  Entry(Assign(T(0), Call(FV(0), argv, kwv, <<name, mod>>, E(0))),
              IF sig = NoneSig THEN none_type ELSE sig.return_type,
              {args[j] : j \in 1..Len(args)} \cup {kws[j][2] : j \in 1..Len(kws)},
              ftype, sig)

PoolTypes(args) == [j \in 1..Len(args) |-> Pool[args[j]]]

ApiEntry(name, args) ==
    CallEntry(name, "hpat.hiframes_api", args, <<>>, Function(name, "hpat.hiframes_api"),
              ApiCallType(name, PoolTypes(args)))

LibEntry(name, mod, args, kws, sig) == CallEntry(name, mod, args, kws, Function(name, mod), sig)

MethodEntry(attr, b, ret) ==
    CallEntry(attr, "$method", <<>>, <<>>, BoundFunction(<<"array", attr>>, Pool[b]), Sig(ret, <<>>))

CallEntries ==
    {ApiEntry(name, <<b>>) : name \in {"count", "column_sum", "mean", "var"}, b \in {"F", "AF"}}
    \cup {ApiEntry("fillna", <<"F", "F", "x">>), ApiEntry("fillna", <<"AF", "AF", "x">>)}
    \cup {ApiEntry(name, <<b, "s">>) :
            name \in {"str_contains_regex", "str_contains_noregex"}, b \in {"S", "A"}}
    \cup {ApiEntry("to_arr_from_series", <<"F">>), ApiEntry("to_arr_from_series", <<"S">>),
          ApiEntry("fix_df_array", <<"AF">>), ApiEntry("fix_df_array", <<"A">>),
          ApiEntry("fix_df_array", <<"F">>),
          ApiEntry("fix_rolling_array", <<"F">>), ApiEntry("fix_rolling_array", <<"I">>),
          ApiEntry("dummy_unbox_series", <<"BX">>)}
    \cup {LibEntry("empty_like", "numpy", <<b>>, <<>>,
                   Sig(Array(Pool[b].dtype, Pool[b].ndim, "C", FALSE, TRUE), <<Pool[b]>>)) :
            b \in {"F", "AF", "A2"}}
    \cup {LibEntry("DatetimeIndex", "pandas", <<"S">>, <<>>, Sig(dt_index_series_type, <<Pool["S"]>>)),
          LibEntry("DatetimeIndex", "pandas", <<>>, << <<"data", "A">> >>, Sig(dt_index_series_type, <<>>)),
          LibEntry("DatetimeIndex", "pandas", <<"S">>, << <<"data", "S">> >>,
                   Sig(dt_index_series_type, <<Pool["S"]>>))}
    \cup {LibEntry("?", m, <<"F">>, <<>>, NoneSig) : m \in {"make_function", "?"}}
    \cup {LibEntry("len", "builtins", <<b>>, <<>>, Sig(intp, <<Pool[b]>>)) : b \in {"F", "AF", "TS", "TT"}}
    \cup {LibEntry("int32", "numpy", <<"i">>, <<>>, Sig(Scalar("int32"), <<intp>>)),
          LibEntry("empty_inferred", "numba.unsafe.ndarray", <<"i">>, <<>>, Sig(float_array, <<intp>>))}
    \cup {MethodEntry("sum", "F", float64), MethodEntry("sum", "AF", float64),
          MethodEntry("cumsum", "F", float_series)}

Catalog == GetattrEntries \cup BinopEntries \cup GetitemEntries \cup CallEntries

\* the statements around: a constant, a statement that is no assignment, a call
PadKinds == {"const", "other", "count"}

Pad(kind, q) ==
    CASE kind = "const" ->
            [stmt |-> Assign(<<"p", q>>, Const(1)), tm |-> (<<"p", q>> :> intp), ct |-> <<>>]
      [] kind = "other" ->
            [stmt |-> Other(q), tm |-> <<>>, ct |-> <<>>]
      [] kind = "count" ->
            Entry(Assign(<<"p", q>>,
                         Call(FV(q), <<V("AF")>>, <<>>, <<"count", "hpat.hiframes_api">>, E(q))),
                  intp, {"AF"}, Function("count", "hpat.hiframes_api"), Sig(intp, <<float_array>>))

\* the sequences over PadKinds of length n
PadSeqs(n) == [1..n -> PadKinds]

\* (pre, post, tail): the pads before and after the statement and in block 1
PadPlans ==
    {pl \in UNION {PadSeqs(a) \X PadSeqs(b) \X PadSeqs(c) :
                     a \in 0..MaxPad, b \in 0..MaxPad, c \in 0..MaxPad} :
        Len(pl[1]) + Len(pl[2]) + Len(pl[3]) <= MaxPad}

\* the serial numbers of the pads: 1.. before, 11.. after, 21.. in block 1
PadsOf(plan, part) == [j \in 1..Len(plan[part]) |-> Pad(plan[part][j], 10 * (part - 1) + j)]

Stmts(entries) == [j \in 1..Len(entries) |-> entries[j].stmt]

RECURSIVE Merge(_, _)
Merge(entries, field) ==
    IF entries = <<>> THEN <<>>
    ELSE Head(entries)[field] @@ Merge(Tail(entries), field)

Program(focus, plan) ==
    LET pre == PadsOf(plan, 1)
        post == PadsOf(plan, 2)
        tail == PadsOf(plan, 3)
        all == pre \o <<focus>> \o post \o tail
    IN  [blocks |-> (0 :> (Stmts(pre) \o <<focus.stmt>> \o Stmts(post) \o <<Jump(1)>>))
                      @@ (1 :> (Stmts(tail) \o <<Return(focus.stmt.target)>>)),
         typemap |-> Merge(all, "tm"),
         calltypes |-> Merge(all, "ct")]

\* find_topo_order: the jumps of these functions go to greater labels
RECURSIVE Ascending(_)
Ascending(labels) ==
    IF labels = {} THEN <<>>
    ELSE LET l == CHOOSE a \in labels : \A b \in labels : a <= b
         IN  <<l>> \o Ascending(labels \ {l})

find_topo_order(bs) == Ascending(DOMAIN bs)

(***************************************************************************)
(* HiFramesTyped.run() as a state machine                                  *)
(***************************************************************************)

VARIABLES
    blocks,        \* func_ir.blocks: label -> body
    typemap,       \* variable -> type
    calltypes,     \* expression identity -> [expr, sig]
    df_cols,       \* func_ir.df_cols
    return_type,   \* the declared result type
    pc,            \* where run() is
    topo,          \* the labels of topo_order still to visit
    label,         \* the loop variable label of run()
    body,          \* the body being iterated
    idx,           \* the position of inst in body
    new_body,
    max_label,     \* ir_utils._max_label
    nvar,          \* the serial number of the last template instantiated
    result,        \* what run() returns
    err,           \* the exception that ended run()
    warned,        \* whether warnings.warn was called
    rule,          \* the handler that took the last statement
    inst,          \* the last statement _run_assign was given
    out,           \* what _run_assign returned for it
    typemap0,      \* the typemap, calltypes and blocks run() was given
    calltypes0,
    blocks0

passVars == <<blocks, typemap, calltypes, df_cols, return_type, pc, topo, label, body, idx,
              new_body, max_label, nvar, result, err, warned, rule, inst, out,
              typemap0, calltypes0, blocks0>>

(***************************************************************************)
(* The loops of _handle_string_array_expr and _handle_dt_index_binop, run  *)
(* on values.  A string is a sequence of character codes, a string buffer  *)
(* a sequence of strings, a dt_index column a sequence of dates            *)
(* (integers); prange runs the iterations in any order.                    *)
(***************************************************************************)

VARIABLES
    lkind,         \* "str": the loop of _handle_string_array_expr, "dt": of _handle_dt_index_binop
    lfn,           \* rhs.fn
    lt1,           \* typemap[arg1.name]
    lt2,           \* typemap[arg2.name]
    larg1,         \* the value of arg1
    larg2,         \* the value of arg2
    parse,         \* parse_datetime_str, as a table
    ltext,         \* func_text
    lother,        \* the variable other of the dt loop
    lS,            \* the buffer S
    ldone,         \* the iterations that have run
    lpc,           \* where the generated function is
    lerr

loopVars == <<lkind, lfn, lt1, lt2, larg1, larg2, parse, ltext, lother, lS, ldone, lpc, lerr>>

(***************************************************************************)
(* The functions of the string buffer (hpat/str_arr_ext.py) applied to     *)
(* values, and the reduction templates of hiframes_typed.py run on a       *)
(* column, the iterations shared among workers.                            *)
(***************************************************************************)

VARIABLES
    sop,           \* the function of str_arr_ext.py that is called
    sargs,         \* its arguments
    sres           \* what it has done and returned

strVars == <<sop, sargs, sres>>

VARIABLES
    rfn,           \* the template: count, column_sum, mean, var, min, max
    rA,            \* the column A
    rred,          \* the reduction variables s and count of the function
    racc,          \* worker -> its private copies of s and count, until merged
    rdone,         \* the iterations of the current loop that have run
    rm,            \* the variable m of _column_var_impl after the first loop
    rpc,           \* where the template is
    rres           \* res

redVars == <<rfn, rA, rred, racc, rdone, rm, rpc, rres>>

(***************************************************************************)
(* The functions on types of pd_series_ext.py applied to types.            *)
(***************************************************************************)

VARIABLES
    top,           \* the function of pd_series_ext.py that is called
    targs,         \* its arguments
    tres           \* what it has returned or raised

typVars == <<top, targs, tres>>

libVars == <<strVars, redVars, typVars>>

\* no function on types is called
TypIdle ==
    /\ top = "none"
    /\ targs = <<>>
    /\ tres = [at |-> "idle"]

\* no function of the string buffer is called
StrIdle ==
    /\ sop = "none"
    /\ sargs = <<>>
    /\ sres = [at |-> "idle"]

\* no reduction template runs
RedIdle ==
    /\ rfn = "none"
    /\ rA = <<>>
    /\ rred = <<>>
    /\ racc = <<>>
    /\ rdone = {}
    /\ rm = <<>>
    /\ rpc = "idle"
    /\ rres = <<>>

vars == <<passVars, loopVars, libVars>>

NoOut == OutList(<<>>, <<>>, <<>>)

PassInit ==
    \E focus \in Catalog, plan \in PadPlans :
        LET prog == Program(focus, plan)
            tt == prog.typemap[focus.stmt.target]
        IN  /\ blocks = prog.blocks
            /\ typemap = prog.typemap
            /\ calltypes = prog.calltypes
            /\ df_cols = {V("F"), V("D"), V("AF"), C(0)}
            /\ return_type \in {tt, TupleType(<<tt, intp>>)}
            /\ pc = "start"
            /\ topo = <<>>
            /\ label = 0
            /\ body = <<>>
            /\ idx = 1
            /\ new_body = <<>>
            /\ max_label = 1
            /\ nvar = 0
            /\ result = none_type
            /\ err = "none"
            /\ warned = FALSE
            /\ rule = "none"
            /\ inst = Other(0)
            /\ out = NoOut
            /\ typemap0 = prog.typemap
            /\ calltypes0 = prog.calltypes
            /\ blocks0 = prog.blocks

\* blocks = self.func_ir.blocks; topo_order = find_topo_order(blocks)
Start ==
    /\ pc = "start"
    /\ topo' = find_topo_order(blocks)
    /\ pc' = "next"
    /\ UNCHANGED <<blocks, typemap, calltypes, df_cols, return_type, label, body, idx, new_body,
                   max_label, nvar, result, err, warned, rule, inst, out,
                   typemap0, calltypes0, blocks0, loopVars, libVars>>

\* for label in topo_order: new_body = []
StartBlock ==
    /\ pc = "next"
    /\ topo # <<>>
    /\ label' = Head(topo)
    /\ topo' = Tail(topo)
    /\ body' = blocks[Head(topo)]
    /\ idx' = 1
    /\ new_body' = <<>>
    /\ pc' = "body"
    /\ UNCHANGED <<blocks, typemap, calltypes, df_cols, return_type, max_label, nvar, result,
                   err, warned, rule, inst, out, typemap0, calltypes0, blocks0, loopVars, libVars>>

\* else: new_body.append(inst)
KeepInst ==
    /\ pc = "body"
    /\ idx <= Len(body)
    /\ body[idx].kind # "assign"
    /\ new_body' = Append(new_body, body[idx])
    /\ idx' = idx + 1
    /\ UNCHANGED <<blocks, typemap, calltypes, df_cols, return_type, pc, topo, label, body,
                   max_label, nvar, result, err, warned, rule, inst, out,
                   typemap0, calltypes0, blocks0, loopVars, libVars>>

\* run() if new_body were not emptied after include_new_blocks
MutEmitKeepsNewBody(r, o) ==
    /\ rule' = r
    /\ inst' = body[idx]
    /\ out' = o
    /\ typemap' = o.tm
    /\ calltypes' = o.ct
    /\ nvar' = IF DOMAIN o.tm = DOMAIN typemap /\ o.kind # "raise" THEN nvar ELSE nvar + 1
    /\ IF o.kind = "raise"
       THEN /\ pc' = "raised"
            /\ err' = o.err
            /\ UNCHANGED <<blocks, label, idx, new_body, max_label>>
       ELSE /\ pc' = pc
            /\ err' = err
            /\ idx' = idx + 1
            /\ IF o.kind = "list"
               THEN /\ new_body' = new_body \o o.nodes
                    /\ UNCHANGED <<blocks, label, max_label>>
               ELSE LET inc == include_new_blocks(blocks, o.blocks, label, new_body, max_label)
                    IN  /\ blocks' = inc.blocks
                        /\ label' = inc.label
                        /\ max_label' = inc.max_label
                        /\ new_body' = IF o.kind = "tuple" THEN new_body \o o.post ELSE new_body
    /\ UNCHANGED <<df_cols, return_type, topo, body, result, typemap0, calltypes0, blocks0, loopVars, libVars>>

\* what run() does with out_nodes, the value of _run_assign(inst)
Emit(r, o) ==
    /\ rule' = r
    /\ inst' = body[idx]
    /\ out' = o
    /\ typemap' = o.tm
    /\ calltypes' = o.ct
    /\ nvar' = IF DOMAIN o.tm = DOMAIN typemap /\ o.kind # "raise" THEN nvar ELSE nvar + 1
    /\ IF o.kind = "raise"
       THEN /\ pc' = "raised"
            /\ err' = o.err
            /\ UNCHANGED <<blocks, label, idx, new_body, max_label>>
       ELSE /\ pc' = pc
            /\ err' = err
            /\ idx' = idx + 1
            /\ IF o.kind = "list"
               THEN /\ new_body' = new_body \o o.nodes
                    /\ UNCHANGED <<blocks, label, max_label>>
               ELSE LET inc == include_new_blocks(blocks, o.blocks, label, new_body, max_label)
                    IN  /\ blocks' = inc.blocks
                        /\ label' = inc.label
                        /\ max_label' = inc.max_label
                        /\ new_body' = IF o.kind = "tuple" THEN o.post ELSE <<>>
    /\ UNCHANGED <<df_cols, return_type, topo, body, result, typemap0, calltypes0, blocks0, loopVars, libVars>>

AtAssign(r) ==
    /\ pc = "body"
    /\ idx <= Len(body)
    /\ body[idx].kind = "assign"
    /\ Dispatch(body[idx], typemap, df_cols) = r

Values ==
    /\ AtAssign("values")
    /\ Emit("values", HandleValues(body[idx], typemap, calltypes))
    /\ UNCHANGED warned

StringArrayExpr ==
    /\ AtAssign("string_array_expr")
    /\ Emit("string_array_expr", HandleStringArrayExpr(body[idx], typemap, calltypes, nvar + 1))
    /\ UNCHANGED warned

DfColFilter ==
    /\ AtAssign("df_col_filter")
    /\ Emit("df_col_filter", HandleDfColFilter(body[idx], typemap, calltypes, nvar + 1))
    /\ UNCHANGED warned

DtGetitem ==
    /\ AtAssign("dt_getitem")
    /\ Emit("dt_getitem", HandleDtGetitem(body[idx], typemap, calltypes, nvar + 1))
    /\ UNCHANGED warned

\* the unresolved call with a warning for a make_function closure too
MutCallUnresolvedAlwaysWarns ==
    /\ AtAssign("call_unresolved")
    /\ Emit("call_unresolved", OutList(<<body[idx]>>, typemap, calltypes))
    /\ warned' = TRUE

\* fdef is None: a make_function closure is left alone, anything else with a warning
CallUnresolved ==
    /\ AtAssign("call_unresolved")
    /\ Emit("call_unresolved", OutList(<<body[idx]>>, typemap, calltypes))
    /\ warned' = (warned \/ body[idx].value.callname[2] # "make_function")

PdDatetimeIndex ==
    /\ AtAssign("DatetimeIndex")
    /\ Emit("DatetimeIndex", RunPdDatetimeIndex(body[idx], typemap, calltypes, nvar + 1))
    /\ UNCHANGED warned

CallHiframes ==
    /\ AtAssign("hiframes_call")
    /\ Emit("hiframes_call",
            RunCallHiframes(body[idx], typemap, calltypes, nvar + 1, body[idx].value.callname[1]))
    /\ UNCHANGED warned

EmptyLike ==
    /\ AtAssign("empty_like")
    /\ Emit("empty_like", HandleEmptyLike(body[idx], typemap, calltypes, nvar + 1))
    /\ UNCHANGED warned

DtIndexBinop ==
    /\ AtAssign("dt_index_binop")
    /\ Emit("dt_index_binop", HandleDtIndexBinop(body[idx], typemap, calltypes, nvar + 1))
    /\ UNCHANGED warned

\* return [assign]
Unchanged ==
    /\ AtAssign("unchanged")
    /\ Emit("unchanged", OutList(<<body[idx]>>, typemap, calltypes))
    /\ UNCHANGED warned

\* blocks[label].body = new_body
EndBlock ==
    /\ pc = "body"
    /\ idx > Len(body)
    /\ blocks' = [blocks EXCEPT ![label] = new_body]
    /\ pc' = "next"
    /\ UNCHANGED <<typemap, calltypes, df_cols, return_type, topo, label, body, idx, new_body,
                   max_label, nvar, result, err, warned, rule, inst, out,
                   typemap0, calltypes0, blocks0, loopVars, libVars>>

\* the sweep if it also replaced the boxed series
MutReplaceSeriesBoxed(typ) ==
    IF IsSeries(typ) \/ IsBoxed(typ) THEN series_to_array_type(typ, TRUE)
    ELSE IF typ.k = "BoundFunction" /\ IsSeries(typ.this)
    THEN ArrayAttributeResolve(typ.typing_key[2], series_to_array_type(typ.this, FALSE))
    ELSE typ

\* the new type of one typemap entry: lines 62-79
ReplaceSeries(typ) ==
    IF IsSeries(typ) THEN series_to_array_type(typ, FALSE)
    ELSE IF typ.k = "BoundFunction" /\ IsSeries(typ.this)
    THEN ArrayAttributeResolve(typ.typing_key[2], series_to_array_type(typ.this, FALSE))
    ELSE typ

\* assert typ.typing_key.startswith('array.')
SweepAsserts(tm) ==
    \A v \in DOMAIN tm :
        (tm[v].k = "BoundFunction" /\ IsSeries(tm[v].this)) => tm[v].typing_key[1] = "array"

\* the sweep of the typemap: lines 61-83
Sweep ==
    /\ pc = "next"
    /\ topo = <<>>
    /\ IF SweepAsserts(typemap)
       THEN /\ typemap' = [v \in DOMAIN typemap |-> ReplaceSeries(typemap[v])]
            /\ pc' = "calltypes"
            /\ err' = err
       ELSE /\ pc' = "raised"
            /\ err' = "AssertionError"
            /\ UNCHANGED typemap
    /\ UNCHANGED <<blocks, calltypes, df_cols, return_type, topo, label, body, idx, new_body,
                   max_label, nvar, result, warned, rule, inst, out,
                   typemap0, calltypes0, blocks0, loopVars, libVars>>

\* sig.return_type = ...; sig.args = ...: lines 91-92
PatchSig(sig) ==
    Sig(if_series_to_array_type(sig.return_type, FALSE),
        [j \in 1..Len(sig.args) |-> if_series_to_array_type(sig.args[j], FALSE)])

\* the signature that replaces old_sig when the typer gave new_sig:
\* lines 105-110
FixSig(new_sig, old_sig) ==
    IF new_sig = NoneSig THEN old_sig
    ELSE Sig(fix_typ_undefs(new_sig.return_type, old_sig.return_type),
             [j \in 1..MinLen(new_sig.args, old_sig.args) |->
                 fix_typ_undefs(new_sig.args[j], old_sig.args[j])])

\* the signature of one entry after lines 87-114
NewSig(entry, tm) ==
    IF entry.sig = NoneSig THEN NoneSig
    ELSE LET sig == PatchSig(entry.sig)
             call == entry.expr
         IN  IF call.op # "call" THEN sig
             ELSE LET argtyps == SubSeq(sig.args, 1, MinLen(sig.args, call.args))
                      new_sig == get_call_type(tm[call.func], argtyps)
                  IN  FixSig(new_sig, sig)

SigFailed(sig) ==
    /\ sig # NoneSig
    /\ (HasFailed(sig.return_type) \/ \E j \in 1..Len(sig.args) : HasFailed(sig.args[j]))

\* the sweep of the calltypes: lines 85-114
FixCalltypes ==
    /\ pc = "calltypes"
    /\ LET new == [c \in DOMAIN calltypes |->
                      [expr |-> calltypes[c].expr, sig |-> NewSig(calltypes[c], typemap)]]
       IN  IF \E c \in DOMAIN new : SigFailed(new[c].sig)
           THEN /\ pc' = "raised"
                /\ err' = "AssertionError"
                /\ UNCHANGED calltypes
           ELSE /\ calltypes' = new
                /\ pc' = "return"
                /\ err' = err
    /\ UNCHANGED <<blocks, typemap, df_cols, return_type, topo, label, body, idx, new_body,
                   max_label, nvar, result, warned, rule, inst, out,
                   typemap0, calltypes0, blocks0, loopVars, libVars>>

\* return if_series_to_unbox(self.return_type)
Finish ==
    /\ pc = "return"
    /\ result' = if_series_to_unbox(return_type)
    /\ pc' = "done"
    /\ UNCHANGED <<blocks, typemap, calltypes, df_cols, return_type, topo, label, body, idx,
                   new_body, max_label, nvar, err, warned, rule, inst, out,
                   typemap0, calltypes0, blocks0, loopVars, libVars>>


(***************************************************************************)
(* The generated loops on values                                           *)
(***************************************************************************)

\* the greatest length of a string buffer or of a dt_index column
MaxLen == 2

\* the strings: sequences of character codes
Strs == {<<1>>, <<1, 2>>, <<2>>}

\* the dates, as the integers a datetime64 holds
Dates == {0, 1, 2}

\* the texts parse_datetime_str is given
Texts == {"2011-10-23", "2015-01-03"}

SeqsUpTo(S, n) == UNION {[1..m -> S] : m \in 0..n}

\* the order of Python strings: lexicographic on the character codes
RECURSIVE StrLess(_, _)
StrLess(a, b) ==
    IF b = <<>> THEN FALSE
    ELSE IF a = <<>> THEN TRUE
    ELSE IF a[1] # b[1] THEN a[1] < b[1]
    ELSE StrLess(Tail(a), Tail(b))

CmpStr(fn, a, b) ==
    CASE fn = "==" -> a = b
      [] fn = "!=" -> a # b
      [] fn = ">=" -> ~StrLess(a, b)
      [] fn = ">" -> StrLess(b, a)
      [] fn = "<=" -> ~StrLess(b, a)
      [] fn = "<" -> StrLess(a, b)

CmpInt(fn, a, b) ==
    CASE fn = "==" -> a = b
      [] fn = "!=" -> a # b
      [] fn = ">=" -> a >= b
      [] fn = ">" -> a > b
      [] fn = "<=" -> a <= b
      [] fn = "<" -> a < b

\* np.nan
nan == [k |-> "nan", n |-> 0, d |-> 1]

\* the float that is the integer n, for the n that are floats
Num(n) == [k |-> "num", n |-> n, d |-> 1]

\* np.isnan(val)
isnan(val) == val.k = "nan"

\* the floats of a column
ColVals == {nan, Num(1), Num(2)}

\* hpat.str_ext.contains_noregex(str, pat), and contains_regex for a pattern
\* of plain characters: pat occurs in str
contains(str, pat) ==
    \E j \in 0..(Len(str) - Len(pat)) : SubSeq(str, j + 1, j + Len(pat)) = pat

StrTypes == {string_array_type, string_series_type, string_type}

\* the values of a type
ValuesOf(t) ==
    IF is_str_arr_typ(t) THEN SeqsUpTo(Strs, MaxLen)
    ELSE IF t = string_type THEN Strs
    ELSE IF t = dt_index_series_type THEN SeqsUpTo(Dates, MaxLen)
    ELSE IF t = intp THEN Dates
    ELSE IF t = float_array THEN SeqsUpTo(ColVals, MaxLen)
    ELSE IF t = bool_array THEN SeqsUpTo(BOOLEAN, MaxLen)
    ELSE IF t = float64 THEN ColVals
    ELSE {}

PassIdle ==
    /\ blocks = <<>>
    /\ typemap = <<>>
    /\ calltypes = <<>>
    /\ df_cols = {}
    /\ return_type = none_type
    /\ pc = "idle"
    /\ topo = <<>>
    /\ label = 0
    /\ body = <<>>
    /\ idx = 1
    /\ new_body = <<>>
    /\ max_label = 0
    /\ nvar = 0
    /\ result = none_type
    /\ err = "none"
    /\ warned = FALSE
    /\ rule = "none"
    /\ inst = Other(0)
    /\ out = NoOut
    /\ typemap0 = <<>>
    /\ calltypes0 = <<>>
    /\ blocks0 = <<>>

LoopIdle ==
    /\ lkind = "none"
    /\ lfn = "=="
    /\ lt1 = none_type
    /\ lt2 = none_type
    /\ larg1 = <<>>
    /\ larg2 = <<>>
    /\ parse = <<>>
    /\ ltext = <<>>
    /\ lother = 0
    /\ lS = <<>>
    /\ ldone = {}
    /\ lpc = "idle"
    /\ lerr = "none"

\* a comparison of strings: one operand at least is a string buffer, and two
\* buffers have the same count
StrLoopInit ==
    /\ lkind = "str"
    /\ lt1 \in StrTypes
    /\ lt2 \in StrTypes
    /\ is_str_arr_typ(lt1) \/ is_str_arr_typ(lt2)
    /\ larg1 \in ValuesOf(lt1)
    /\ larg2 \in ValuesOf(lt2)
    /\ (is_str_arr_typ(lt1) /\ is_str_arr_typ(lt2)) => Len(larg1) = Len(larg2)
    /\ parse = <<>>

\* a comparison of a dt_index column: with a text, with a number
DtLoopInit ==
    /\ lkind = "dt"
    /\ \/ lt1 = dt_index_series_type /\ lt2 \in {string_type, intp}
       \/ lt2 = dt_index_series_type /\ lt1 \in {string_type, intp}
    /\ larg1 \in (IF lt1 = string_type THEN Texts ELSE ValuesOf(lt1))
    /\ larg2 \in (IF lt2 = string_type THEN Texts ELSE ValuesOf(lt2))
    /\ parse \in [Texts -> Dates]

\* str_contains_regex, str_contains_noregex: a string buffer and a pattern
ContainsLoopInit ==
    /\ lkind = "contains"
    /\ lt1 \in {string_array_type, string_series_type}
    /\ lt2 = string_type
    /\ larg1 \in ValuesOf(lt1)
    /\ larg2 \in ValuesOf(lt2)
    /\ parse = <<>>

\* _column_fillna_impl(A, B, fill) and _column_filter_impl_float(A, B, ind):
\* larg1 is B, larg2 is fill or ind, lS is A; the columns have one length
ColumnLoopInit ==
    /\ lkind \in {"fillna", "filter"}
    /\ lt1 = float_array
    /\ lt2 = (IF lkind = "fillna" THEN float64 ELSE bool_array)
    /\ larg1 \in ValuesOf(lt1)
    /\ larg2 \in {v \in ValuesOf(lt2) : lkind = "filter" => Len(v) = Len(larg1)}
    /\ parse = <<>>

LoopInit ==
    /\ PassIdle
    /\ StrIdle
    /\ RedIdle
    /\ TypIdle
    /\ StrLoopInit \/ DtLoopInit \/ ContainsLoopInit \/ ColumnLoopInit
    /\ lfn \in (CASE lkind \in {"str", "dt"} -> RelOps
                  [] lkind = "contains" -> {"str_contains_regex", "str_contains_noregex"}
                  [] OTHER -> {"=="})
    /\ ltext = <<>>
    /\ lother = 0
    /\ lS = <<>>
    /\ ldone = {}
    /\ lpc = "start"
    /\ lerr = "none"

\* _handle_string_array_expr: func_text, then compile_to_numba_ir
GenStringArrayExpr ==
    /\ lpc = "start"
    /\ lkind = "str"
    /\ LET text == StringArrayExprText(lt1, lt2, lfn)
           pa == if_series_to_array_type(lt1, FALSE)
           pb == if_series_to_array_type(lt2, FALSE)
       IN  /\ ltext' = text
           /\ IF TextTypes(text, pa, pb)
              THEN lpc' = "alloc" /\ lerr' = lerr
              ELSE lpc' = "raised" /\ lerr' = "TypingError"
    /\ UNCHANGED <<passVars, libVars, lkind, lfn, lt1, lt2, larg1, larg2, parse, lother, lS, ldone>>

\* _handle_dt_index_binop: the check of the operand types, then func_text
GenDtIndexBinop ==
    /\ lpc = "start"
    /\ lkind = "dt"
    /\ IF lt1 \notin {dt_index_series_type, string_type}
          \/ lt2 \notin {dt_index_series_type, string_type}
       THEN /\ lpc' = "raised"
            /\ lerr' = "ValueError"
            /\ UNCHANGED ltext
       ELSE /\ ltext' = DtIndexBinopText(lt1, lfn)
            /\ lpc' = "alloc"
            /\ lerr' = lerr
    /\ UNCHANGED <<passVars, libVars, lkind, lfn, lt1, lt2, larg1, larg2, parse, lother, lS, ldone>>

\* _handle_str_contains: func_text
GenStrContains ==
    /\ lpc = "start"
    /\ lkind = "contains"
    /\ ltext' = [len_call |-> "len(str_arr)",
                 func |-> IF lfn = "str_contains_regex" THEN "contains_regex"
                          ELSE "contains_noregex",
                 arg1_access |-> "str_arr[i]",
                 arg2_access |-> "pat"]
    /\ lpc' = "alloc"
    /\ UNCHANGED <<passVars, libVars, lkind, lfn, lt1, lt2, larg1, larg2, parse, lother, lS, ldone,
                   lerr>>

\* the templates that are functions of the module: what the body of the
\* loop of _column_fillna_impl and of _column_filter_impl_float reads and
\* writes
GenColumnImpl ==
    /\ lpc = "start"
    /\ lkind \in {"fillna", "filter"}
    /\ ltext' = [len_call |-> "len(A)",
                 reads |-> IF lkind = "fillna" THEN {"B[i]", "fill"} ELSE {"ind[i]", "B[i]"},
                 writes |-> "A[i]"]
    /\ lpc' = "alloc"
    /\ UNCHANGED <<passVars, libVars, lkind, lfn, lt1, lt2, larg1, larg2, parse, lother, lS, ldone,
                   lerr>>

\* the value a name of func_text stands for
ArgValue(name) == IF name \in {"arg1", "A", "len(A)", "len(str_arr)"} THEN larg1 ELSE larg2

\* l = len(..); other = parse_datetime_str(_str); S = empty(l)
Alloc ==
    /\ lpc = "alloc"
    /\ LET l == IF lkind = "dt" THEN Len(ArgValue(ltext.dt_index))
                ELSE Len(ArgValue(ltext.len_call))
       IN  IF lkind \in {"fillna", "filter"}
           THEN lS' \in [1..Len(larg1) -> ColVals]
           ELSE lS' = [i \in 1..l |-> FALSE]
    /\ ldone' = {}
    /\ lother' = IF lkind = "dt" THEN parse[ArgValue(ltext.str)] ELSE lother
    /\ lpc' = "loop"
    /\ UNCHANGED <<passVars, libVars, lkind, lfn, lt1, lt2, larg1, larg2, parse, ltext, lerr>>

\* the operand of the comparison at iteration i
Operand(access, i) ==
    CASE access = "A" -> larg1
      [] access = "B" -> larg2
      [] access = "A[i]" -> larg1[i]
      [] access = "B[i]" -> larg2[i]
      [] access = "other" -> lother
      [] access = "dt_index[i]" -> ArgValue(ltext.dt_index)[i]
      [] access = "str_arr[i]" -> larg1[i]
      [] access = "pat" -> larg2

\* S[i] = <left> fn <right>; S[i] = func(str_arr[i], pat); A[i] = s
BodyValue(i) ==
    CASE lkind = "str" ->
            CmpStr(ltext.fn, Operand(ltext.arg1_access, i), Operand(ltext.arg2_access, i))
      [] lkind = "dt" -> CmpInt(ltext.fn, Operand(ltext.left, i), Operand(ltext.right, i))
      [] lkind = "contains" ->
            contains(Operand(ltext.arg1_access, i), Operand(ltext.arg2_access, i))
      [] lkind = "fillna" -> IF isnan(larg1[i]) THEN larg2 ELSE larg1[i]
      [] lkind = "filter" -> IF larg2[i] THEN larg1[i] ELSE nan

\* one iteration of the prange loop
Iterate ==
    /\ lpc = "loop"
    /\ \E i \in 1..Len(lS) :
          /\ i \notin ldone
          /\ lS' = [lS EXCEPT ![i] = BodyValue(i)]
          /\ ldone' = ldone \cup {i}
    /\ UNCHANGED <<passVars, libVars, lkind, lfn, lt1, lt2, larg1, larg2, parse, ltext, lother, lpc, lerr>>

LoopEnd ==
    /\ lpc = "loop"
    /\ ldone = 1..Len(lS)
    /\ lpc' = "done"
    /\ UNCHANGED <<passVars, libVars, lkind, lfn, lt1, lt2, larg1, larg2, parse, ltext, lother, lS, ldone, lerr>>

LoopNext ==
    \/ GenStringArrayExpr
    \/ GenDtIndexBinop
    \/ GenStrContains
    \/ GenColumnImpl
    \/ Alloc
    \/ Iterate
    \/ LoopEnd

LoopSpec == LoopInit /\ [][LoopNext]_vars

Init == PassInit /\ LoopIdle /\ StrIdle /\ RedIdle /\ TypIdle

Next ==
    \/ Start
    \/ StartBlock
    \/ KeepInst
    \/ Values
    \/ StringArrayExpr
    \/ DfColFilter
    \/ DtGetitem
    \/ CallUnresolved
    \/ PdDatetimeIndex
    \/ CallHiframes
    \/ EmptyLike
    \/ DtIndexBinop
    \/ Unchanged
    \/ EndBlock
    \/ Sweep
    \/ FixCalltypes
    \/ Finish

Spec == Init /\ [][Next]_vars

(***************************************************************************)
(* The string buffer of str_arr_ext.py: num_items texts, held as the       *)
(* offsets of their first characters and the characters of all of them.    *)
(* Offsets and indices count from 0 as in the code; the sequences that     *)
(* hold them count from 1.                                                 *)
(***************************************************************************)

\* the greatest number of items of a string buffer, a mask, an index buffer
MaxItems == 3

\* the texts held: those of Strs and the empty text
StrItems == Strs \cup {<<>>}

\* allocate_string_array of hstr_ext: num_strs + 1 offsets, all zero, and
\* room for the characters
allocate_string_array(num_strs, num_total_chars) ==
    [offsets |-> [j \in 1..(num_strs + 1) |-> 0],
     data |-> [j \in 1..num_total_chars |-> 0]]

pre_alloc_string_array(num_strs, num_total_chars) ==
    LET str_arr_payload == allocate_string_array(num_strs, num_total_chars)
    IN  [num_items |-> num_strs,
         num_total_chars |-> num_total_chars,
         offsets |-> str_arr_payload.offsets,
         data |-> str_arr_payload.data]

\* setitem_string_array of hstr_ext: the characters of str from offsets[i]
\* on, and offsets[i + 1] = offsets[i] + len(str); gives offsets and data
\* as they are after the call
setitem_string_array(offsets, data, str, i) ==
    LET start == offsets[i + 1]
    IN  [offsets |-> [offsets EXCEPT ![i + 2] = start + Len(str)],
         data |-> [j \in 1..Len(data) |->
                      IF j > start /\ j <= start + Len(str) THEN str[j - start] ELSE data[j]]]

\* getitem_string_array_std of hstr_ext: the characters from offsets[i] up
\* to offsets[i + 1]
getitem_string_array_std(offsets, data, i) ==
    [j \in 1..(offsets[i + 2] - offsets[i + 1]) |-> data[offsets[i + 1] + j]]

\* str_arr[i]
lower_string_arr_getitem(string_array, i) ==
    getitem_string_array_std(string_array.offsets, string_array.data, i)

\* len(str_arr)
str_arr_len(s) == s.num_items

\* out_arr after setitem_string_array(get_offset_ptr(out_arr),
\* get_data_ptr(out_arr), str, i)
SetItem(out_arr, str, i) ==
    LET w == setitem_string_array(out_arr.offsets, out_arr.data, str, i)
    IN  [out_arr EXCEPT !.offsets = w.offsets, !.data = w.data]

\* str_list_impl with what it has done: the buffer returned, the arguments
\* of pre_alloc_string_array, and the index and the length of the string of
\* each call of setitem_string_array, in the order of the calls
StrListImplRun(str_list) ==
    LET n == Len(str_list)
        n_char[i \in 0..n] == IF i = 0 THEN 0 ELSE n_char[i - 1] + Len(str_list[i])
        str_arr[i \in 0..n] ==
            IF i = 0 THEN pre_alloc_string_array(n, n_char[n])
            ELSE SetItem(str_arr[i - 1], str_list[i], i - 1)
    IN  [str_arr |-> str_arr[n],
         alloc |-> <<n, n_char[n]>>,
         calls |-> [i \in 1..n |-> <<i - 1, Len(str_list[i])>>]]

\* str_list_to_array on a list of strings
str_list_impl(str_list) == StrListImplRun(str_list).str_arr

\* to_string_impl that puts every item before those it has
MutToStringImplPrepend(str_arr) ==
    LET n == str_arr_len(str_arr)
        l_str[i \in 0..n] ==
            IF i = 0 THEN <<>>
            ELSE <<lower_string_arr_getitem(str_arr, i - 1)>> \o l_str[i - 1]
    IN  l_str[n]

\* to_string_list on a string buffer
to_string_impl(str_arr) ==
    LET n == str_arr_len(str_arr)
        l_str[i \in 0..n] ==
            IF i = 0 THEN <<>> ELSE Append(l_str[i - 1], lower_string_arr_getitem(str_arr, i - 1))
    IN  l_str[n]

\* what a getitem of a string buffer has done when it raises: no item
\* read, no buffer allocated
Raised(exc, str_arr) ==
    [raised |-> exc, out_arr |-> <<>>, reads |-> 0, allocs |-> 0, str_arr |-> str_arr]

\* str_arr_bool_impl that raises only when bool_arr is the shorter one
MutStrArrBoolImplLongMask(str_arr, bool_arr) ==
    LET n == str_arr_len(str_arr)
        count[i \in 0..n] ==
            IF i = 0 THEN [n_strs |-> 0, n_chars |-> 0]
            ELSE IF bool_arr[i] = TRUE
                 THEN [n_strs |-> count[i - 1].n_strs + 1,
                       n_chars |-> count[i - 1].n_chars
                                      + Len(lower_string_arr_getitem(str_arr, i - 1))]
                 ELSE count[i - 1]
        copy[i \in 0..n] ==
            IF i = 0
            THEN [out_arr |-> pre_alloc_string_array(count[n].n_strs, count[n].n_chars),
                  str_ind |-> 0]
            ELSE IF bool_arr[i] = TRUE
                 THEN [out_arr |-> SetItem(copy[i - 1].out_arr,
                                           lower_string_arr_getitem(str_arr, i - 1),
                                           copy[i - 1].str_ind),
                       str_ind |-> copy[i - 1].str_ind + 1]
                 ELSE copy[i - 1]
    IN  IF n > Len(bool_arr)
        THEN Raised("IndexError", str_arr)
        ELSE [raised |-> "none", out_arr |-> copy[n].out_arr,
              reads |-> 2 * count[n].n_strs, allocs |-> 1, str_arr |-> str_arr]

\* str_arr_bool_impl whose second loop never advances str_ind
MutStrArrBoolImplNoAdvance(str_arr, bool_arr) ==
    LET n == str_arr_len(str_arr)
        count[i \in 0..n] ==
            IF i = 0 THEN [n_strs |-> 0, n_chars |-> 0]
            ELSE IF bool_arr[i] = TRUE
                 THEN [n_strs |-> count[i - 1].n_strs + 1,
                       n_chars |-> count[i - 1].n_chars
                                      + Len(lower_string_arr_getitem(str_arr, i - 1))]
                 ELSE count[i - 1]
        copy[i \in 0..n] ==
            IF i = 0
            THEN pre_alloc_string_array(count[n].n_strs, count[n].n_chars)
            ELSE IF bool_arr[i] = TRUE
                 THEN SetItem(copy[i - 1], lower_string_arr_getitem(str_arr, i - 1), 0)
                 ELSE copy[i - 1]
    IN  IF n # Len(bool_arr)
        THEN Raised("IndexError", str_arr)
        ELSE [raised |-> "none", out_arr |-> copy[n],
              reads |-> 2 * count[n].n_strs, allocs |-> 1, str_arr |-> str_arr]

\* getitem of a string buffer with a boolean array: the buffer returned,
\* the number of items read and of buffers allocated, str_arr after the
\* call, the arguments of pre_alloc_string_array, and the index and the
\* length of the string of each call of setitem_string_array
str_arr_bool_impl(str_arr, bool_arr) ==
    LET n == str_arr_len(str_arr)
        count[i \in 0..n] ==
            IF i = 0 THEN [n_strs |-> 0, n_chars |-> 0]
            ELSE IF bool_arr[i] = TRUE
                 THEN [n_strs |-> count[i - 1].n_strs + 1,
                       n_chars |-> count[i - 1].n_chars
                                      + Len(lower_string_arr_getitem(str_arr, i - 1))]
                 ELSE count[i - 1]
        copy[i \in 0..n] ==
            IF i = 0
            THEN [out_arr |-> pre_alloc_string_array(count[n].n_strs, count[n].n_chars),
                  str_ind |-> 0,
                  calls |-> <<>>]
            ELSE IF bool_arr[i] = TRUE
                 THEN [out_arr |-> SetItem(copy[i - 1].out_arr,
                                           lower_string_arr_getitem(str_arr, i - 1),
                                           copy[i - 1].str_ind),
                       str_ind |-> copy[i - 1].str_ind + 1,
                       calls |-> Append(copy[i - 1].calls,
                                        <<copy[i - 1].str_ind,
                                          Len(lower_string_arr_getitem(str_arr, i - 1))>>)]
                 ELSE copy[i - 1]
    IN  IF n # Len(bool_arr)
        THEN Raised("IndexError", str_arr)
        ELSE [raised |-> "none", out_arr |-> copy[n].out_arr,
              reads |-> 2 * count[n].n_strs, allocs |-> 1, str_arr |-> str_arr,
              alloc |-> <<count[n].n_strs, count[n].n_chars>>, calls |-> copy[n].calls]

\* str_arr_arr_impl whose second loop takes the indices from the end
MutStrArrArrImplBackwards(str_arr, ind_arr) ==
    LET n == Len(ind_arr)
        n_chars[i \in 0..n] ==
            IF i = 0 THEN 0
            ELSE n_chars[i - 1] + Len(lower_string_arr_getitem(str_arr, ind_arr[i]))
        out_arr[i \in 0..n] ==
            IF i = 0 THEN pre_alloc_string_array(n, n_chars[n])
            ELSE SetItem(out_arr[i - 1],
                         lower_string_arr_getitem(str_arr, ind_arr[n + 1 - i]), i - 1)
    IN  [raised |-> "none", out_arr |-> out_arr[n],
         reads |-> 2 * n, allocs |-> 1, str_arr |-> str_arr]

\* str_arr_arr_impl that asks for room for one character more than it writes
MutStrArrArrImplRoom(str_arr, ind_arr) ==
    LET n == Len(ind_arr)
        n_chars[i \in 0..n] ==
            IF i = 0 THEN 1
            ELSE n_chars[i - 1] + Len(lower_string_arr_getitem(str_arr, ind_arr[i]))
        out_arr[i \in 0..n] ==
            IF i = 0 THEN pre_alloc_string_array(n, n_chars[n])
            ELSE SetItem(out_arr[i - 1], lower_string_arr_getitem(str_arr, ind_arr[i]), i - 1)
    IN  [raised |-> "none", out_arr |-> out_arr[n],
         reads |-> 2 * n, allocs |-> 1, str_arr |-> str_arr,
         alloc |-> <<n, n_chars[n]>>,
         calls |-> [i \in 1..n |->
                      <<i - 1, Len(lower_string_arr_getitem(str_arr, ind_arr[i]))>>]]

\* getitem of a string buffer with an array of integers
str_arr_arr_impl(str_arr, ind_arr) ==
    LET n == Len(ind_arr)
        n_chars[i \in 0..n] ==
            IF i = 0 THEN 0
            ELSE n_chars[i - 1] + Len(lower_string_arr_getitem(str_arr, ind_arr[i]))
        out_arr[i \in 0..n] ==
            IF i = 0 THEN pre_alloc_string_array(n, n_chars[n])
            ELSE SetItem(out_arr[i - 1], lower_string_arr_getitem(str_arr, ind_arr[i]), i - 1)
    IN  [raised |-> "none", out_arr |-> out_arr[n],
         reads |-> 2 * n, allocs |-> 1, str_arr |-> str_arr,
         alloc |-> <<n, n_chars[n]>>,
         calls |-> [i \in 1..n |->
                      <<i - 1, Len(lower_string_arr_getitem(str_arr, ind_arr[i]))>>]]

\* the buffers, boolean arrays and index arrays that the functions are
\* called on: a buffer is made from a list of texts by str_list_to_array,
\* an index array holds indices of the buffer
StrInit ==
    /\ PassIdle
    /\ LoopIdle
    /\ RedIdle
    /\ TypIdle
    /\ sop \in {"getitem_bool", "getitem_arr", "str_list_to_array"}
    /\ \E str_list \in SeqsUpTo(StrItems, MaxItems) :
          \E ind \in CASE sop = "getitem_bool" -> SeqsUpTo(BOOLEAN, MaxItems)
                       [] sop = "getitem_arr" ->
                              SeqsUpTo(0..(Len(str_list) - 1), MaxItems)
                       [] OTHER -> {<<>>} :
             sargs = [str_list |-> str_list,
                      str_arr |-> str_list_impl(str_list),
                      ind |-> ind]
    /\ sres = [at |-> "call"]

\* str_arr[bool_arr]
GetitemBool ==
    /\ sop = "getitem_bool"
    /\ sres.at = "call"
    /\ sres' = [at |-> "returned", ret |-> str_arr_bool_impl(sargs.str_arr, sargs.ind)]
    /\ UNCHANGED <<passVars, loopVars, redVars, typVars, sop, sargs>>

\* str_arr[ind_arr]
GetitemArr ==
    /\ sop = "getitem_arr"
    /\ sres.at = "call"
    /\ sres' = [at |-> "returned", ret |-> str_arr_arr_impl(sargs.str_arr, sargs.ind)]
    /\ UNCHANGED <<passVars, loopVars, redVars, typVars, sop, sargs>>

\* str_list_to_array(str_list)
StrListToArray ==
    /\ sop = "str_list_to_array"
    /\ sres.at = "call"
    /\ sres' = [at |-> "array", str_arr |-> str_list_impl(sargs.str_list),
                alloc |-> StrListImplRun(sargs.str_list).alloc,
                calls |-> StrListImplRun(sargs.str_list).calls]
    /\ UNCHANGED <<passVars, loopVars, redVars, typVars, sop, sargs>>

\* to_string_list of the buffer that str_list_to_array has made
ToStringList ==
    /\ sop = "str_list_to_array"
    /\ sres.at = "array"
    /\ sres' = [at |-> "list", str_arr |-> sres.str_arr,
                l_str |-> to_string_impl(sres.str_arr)]
    /\ UNCHANGED <<passVars, loopVars, redVars, typVars, sop, sargs>>

StrNext ==
    \/ GetitemBool
    \/ GetitemArr
    \/ StrListToArray
    \/ ToStringList

StrSpec == StrInit /\ [][StrNext]_vars

(***************************************************************************)
(* The reduction templates of hiframes_typed.py on a column of floats.     *)
(* A float is nan, an infinity, or a number n/d with d a power of 2; the   *)
(* result of an operation is rounded to the nearest float, ties to the     *)
(* even mantissa, as float64 does it, with the mantissas of Mantissas in   *)
(* place of the 53 bits of float64.                                        *)
(***************************************************************************)

\* the mantissas of a float that is not zero
Mantissas == 4..7

\* the exponents of the floats that the templates come to
Exponents == (0 - 6)..8

\* np.inf and -np.inf, by the sign
Inf(sign) == [k |-> "inf", n |-> sign, d |-> 1]

\* the float nearest to n/d, d > 0
Round(n, d) ==
    IF n = 0 THEN Num(0)
    ELSE LET a == IF n < 0 THEN 0 - n ELSE n
             lo == CHOOSE m \in Mantissas : \A x \in Mantissas : m <= x
             hi == CHOOSE m \in Mantissas : \A x \in Mantissas : m >= x
             num(e) == IF e < 0 THEN a * 2^(0 - e) ELSE a
             den(e) == IF e < 0 THEN d ELSE d * 2^e
             e == CHOOSE x \in Exponents :
                     lo * den(x) <= num(x) /\ num(x) < (hi + 1) * den(x)
             q == num(e) \div den(e)
             r == num(e) % den(e)
             m == IF 2 * r > den(e) \/ (2 * r = den(e) /\ q % 2 = 1) THEN q + 1 ELSE q
             \* m * 2^e in lowest terms
             up == IF e < 0 THEN m ELSE m * 2^e
             down == IF e < 0 THEN 2^(0 - e) ELSE 1
             t == CHOOSE x \in 0..(IF e < 0 THEN 0 - e ELSE 0) :
                     /\ up % 2^x = 0
                     /\ \A y \in 0..(IF e < 0 THEN 0 - e ELSE 0) : up % 2^y = 0 => y <= x
         IN  [k |-> "num",
              n |-> (IF n < 0 THEN 0 - 1 ELSE 1) * (up \div 2^t),
              d |-> down \div 2^t]

\* a + b, a - b, a * b, a / b, min(a, b), max(a, b) on floats
Arith(op, a, b) ==
    LET less(x, y) ==
            IF x.k = "inf" THEN x.n < 0 /\ y # x
            ELSE IF y.k = "inf" THEN y.n > 0
            ELSE x.n * y.d < y.n * x.d
    IN  CASE op = "min" -> IF less(b, a) THEN b ELSE a
          [] op = "max" -> IF less(a, b) THEN b ELSE a
          [] isnan(a) \/ isnan(b) -> nan
          [] op = "+" -> Round(a.n * b.d + b.n * a.d, a.d * b.d)
          [] op = "-" -> Round(a.n * b.d - b.n * a.d, a.d * b.d)
          [] op = "*" -> Round(a.n * b.n, a.d * b.d)
          [] op = "/" -> IF b.n < 0 THEN Round(0 - a.n * b.d, a.d * (0 - b.n))
                         ELSE Round(a.n * b.d, a.d * b.n)

\* the greatest length of a column
MaxCol == 3

\* the elements of a column
Vals == {nan, Num(0 - 1), Num(1), Num(8)}

\* the workers that share the iterations of a prange loop
Workers == {1, 2}

Templates == {"count", "column_sum", "mean", "var", "min", "max"}

\* the reduction variables s and count (m and count_m in the first loop of
\* _column_var_impl) before the loop
RedVars0(fn) ==
    [s |-> CASE fn = "min" -> Inf(1)        \* get_type_max_value(in_arr.dtype)
             [] fn = "max" -> Inf(0 - 1)    \* get_type_min_value(in_arr.dtype)
             [] OTHER -> Num(0),
     count |-> 0]

\* the loop body of min and max that keeps the value it sees, not the
\* smaller or greater of the two
MutLoopBodyKeepsLast(fn, loop, v, val, m) ==
    IF isnan(val) THEN v
    ELSE [s |-> CASE fn \in {"count", "min", "max"} -> val
                  [] fn = "var" /\ loop = "loop2" ->
                         Arith("+", v.s, Arith("*", Arith("-", val, m), Arith("-", val, m)))
                  [] OTHER -> Arith("+", v.s, val),
          count |-> v.count + 1]

\* the loop body that counts the missing elements too
MutLoopBodyCountsMissing(fn, loop, v, val, m) ==
    IF isnan(val) THEN [v EXCEPT !.count = @ + 1]
    ELSE [s |-> CASE fn = "count" -> v.s
                  [] fn = "min" -> Arith("min", v.s, val)
                  [] fn = "max" -> Arith("max", v.s, val)
                  [] fn = "var" /\ loop = "loop2" ->
                         Arith("+", v.s, Arith("*", Arith("-", val, m), Arith("-", val, m)))
                  [] OTHER -> Arith("+", v.s, val),
          count |-> v.count + 1]

\* one iteration of the loop of template fn on variables v: val = A[i]
LoopBody(fn, loop, v, val, m) ==
    IF isnan(val) THEN v
    ELSE [s |-> CASE fn = "count" -> v.s
                  [] fn = "min" -> Arith("min", v.s, val)
                  [] fn = "max" -> Arith("max", v.s, val)
                  [] fn = "var" /\ loop = "loop2" ->
                         Arith("+", v.s, Arith("*", Arith("-", val, m), Arith("-", val, m)))
                  [] OTHER -> Arith("+", v.s, val),
          count |-> v.count + 1]

\* the private copies of a worker combined into the variables of the
\* function: s by the operation of the loop body, count by +
Combine(fn, v, w) ==
    [s |-> CASE fn = "min" -> Arith("min", v.s, w.s)
             [] fn = "max" -> Arith("max", v.s, w.s)
             [] OTHER -> Arith("+", v.s, w.s),
     count |-> v.count + w.count]

\* _sum_handle_nan that returns s whatever count is
MutSumHandleNanKeeps(s, count) == s

sum_handle_nan(s, count) == IF count = 0 THEN nan ELSE s

mean_handle_nan(s, count) == IF count = 0 THEN nan ELSE Arith("/", s, Num(count))

\* _var_handle_nan that divides by count
MutVarHandleNanByCount(s, count) == IF count <= 1 THEN nan ELSE Arith("/", s, Num(count))

var_handle_nan(s, count) == IF count <= 1 THEN nan ELSE Arith("/", s, Num(count - 1))

\* res of template fn
Res(fn, v) ==
    CASE fn = "count" -> v.count
      [] fn = "mean" -> mean_handle_nan(v.s, v.count)
      [] fn = "var" -> var_handle_nan(v.s, v.count)
      [] OTHER -> sum_handle_nan(v.s, v.count)

RedInit ==
    /\ PassIdle
    /\ LoopIdle
    /\ StrIdle
    /\ TypIdle
    /\ rfn \in Templates
    /\ rA \in SeqsUpTo(Vals, MaxCol)
    /\ rred = RedVars0(rfn)
    /\ racc = [w \in Workers |-> RedVars0(rfn)]
    /\ rdone = {}
    /\ rm = [m |-> Num(0), count_m |-> 0]
    /\ rpc = "loop"
    /\ rres = <<>>

\* an iteration of the prange loop, on any worker, in any order
RedIterate ==
    /\ rpc \in {"loop", "loop2"}
    /\ \E i \in (1..Len(rA)) \ rdone, w \in Workers :
          /\ racc' = [racc EXCEPT ![w] = LoopBody(rfn, rpc, racc[w], rA[i], rm.m)]
          /\ rdone' = rdone \cup {i}
    /\ UNCHANGED <<passVars, loopVars, strVars, typVars, rfn, rA, rred, rm, rpc, rres>>

\* the end of the loop: the copies of a worker are merged, the workers in
\* any order
RedMerge ==
    /\ rpc \in {"loop", "loop2"}
    /\ rdone = 1..Len(rA)
    /\ \E w \in DOMAIN racc :
          /\ rred' = Combine(rfn, rred, racc[w])
          /\ racc' = [x \in DOMAIN racc \ {w} |-> racc[x]]
    /\ UNCHANGED <<passVars, loopVars, strVars, typVars, rfn, rA, rdone, rm, rpc, rres>>

\* _column_var_impl between its loops: m = _mean_handle_nan(m, count_m),
\* s = 0, count = 0
RedSecondLoop ==
    /\ rfn = "var"
    /\ rpc = "loop"
    /\ rdone = 1..Len(rA)
    /\ DOMAIN racc = {}
    /\ rm' = [m |-> mean_handle_nan(rred.s, rred.count), count_m |-> rred.count]
    /\ rred' = RedVars0(rfn)
    /\ racc' = [w \in Workers |-> RedVars0(rfn)]
    /\ rdone' = {}
    /\ rpc' = "loop2"
    /\ UNCHANGED <<passVars, loopVars, strVars, typVars, rfn, rA, rres>>

\* res = ..._handle_nan(s, count); return res
RedReturn ==
    /\ rpc = (IF rfn = "var" THEN "loop2" ELSE "loop")
    /\ rdone = 1..Len(rA)
    /\ DOMAIN racc = {}
    /\ rres' = Res(rfn, rred)
    /\ rpc' = "done"
    /\ UNCHANGED <<passVars, loopVars, strVars, typVars, rfn, rA, rred, racc, rdone, rm>>

RedNext ==
    \/ RedIterate
    \/ RedMerge
    \/ RedSecondLoop
    \/ RedReturn

RedSpec == RedInit /\ [][RedNext]_vars

(***************************************************************************)
(* The functions on types of pd_series_ext.py: the conversions between     *)
(* series and array types, and the unification of series types as type     *)
(* inference calls it.                                                     *)
(***************************************************************************)

\* how many types a tuple type holds at most
MaxTuple == 2

\* typ.dtype.is_precise()
is_precise(dtype) == dtype # "undefined"

\* SeriesType.unify that does not compare the element types
MutUnifyAnyDtype(self, other) ==
    IF IsSeries(other) /\ other.ndim = self.ndim
    THEN SeriesType(self.dtype, self.ndim,
                    IF self.layout = other.layout THEN self.layout ELSE "A",
                    ~(self.mutable /\ other.mutable),
                    self.aligned /\ other.aligned)
    ELSE none_type

\* SeriesType.unify whose result is mutable when one of the two is
MutUnifyMutableEither(self, other) ==
    IF IsSeries(other) /\ other.ndim = self.ndim
                       /\ (other.dtype = self.dtype \/ ~is_precise(other.dtype))
    THEN SeriesType(self.dtype, self.ndim,
                    IF self.layout = other.layout THEN self.layout ELSE "A",
                    ~(self.mutable \/ other.mutable),
                    self.aligned /\ other.aligned)
    ELSE none_type

\* SeriesType.unify; None when it ends with types.Type.unify
unify(self, other) ==
    IF IsSeries(other) /\ other.ndim = self.ndim
                       /\ (other.dtype = self.dtype \/ ~is_precise(other.dtype))
    THEN SeriesType(self.dtype, self.ndim,
                    IF self.layout = other.layout THEN self.layout ELSE "A",
                    ~(self.mutable /\ other.mutable),
                    self.aligned /\ other.aligned)
    ELSE none_type

\* SeriesType.can_convert_to
can_convert_to(self, other) ==
    /\ IsArray(other)
    /\ other.ndim = self.ndim
    /\ other.dtype = self.dtype
    /\ other.layout \in {"A", self.layout}
    /\ self.mutable \/ ~other.mutable
    /\ self.aligned \/ ~other.aligned

\* the unification of two types as type inference does it: unify of the
\* first, then of the second, then the conversions; None when there is
\* none
unify_pairs(first, second) ==
    IF first = second THEN first
    ELSE IF unify(first, second) # none_type THEN unify(first, second)
    ELSE IF IsSeries(second) /\ unify(second, first) # none_type THEN unify(second, first)
    ELSE IF can_convert_to(first, second) THEN second
    ELSE none_type

RECURSIVE if_arr_to_series_type(_)
if_arr_to_series_type(typ) ==
    IF IsArray(typ) \/ typ = string_array_type THEN arr_to_series_type(typ)
    ELSE IF IsTuple(typ)
    THEN TupleType([i \in 1..Len(typ.types) |-> if_arr_to_series_type(typ.types[i])])
    ELSE typ

\* the assert of SeriesType.__init__ fails for a series type that typ is
\* made of: ndim == 1, "Series() should be one dimensional"
RECURSIVE SeriesAsserts(_)
SeriesAsserts(typ) ==
    \/ IsSeries(typ) /\ typ.ndim # 1
    \/ IsTuple(typ) /\ \E i \in 1..Len(typ.types) : SeriesAsserts(typ.types[i])

\* what a function on types returns, or raises
Outcome(ret) ==
    IF SeriesAsserts(ret) THEN [at |-> "returned", raised |-> "AssertionError", ret |-> none_type]
    ELSE [at |-> "returned", raised |-> "none", ret |-> ret]

Layouts == {"C", "F", "A"}

ArrayTypes ==
    {Array(d, n, l, r, a) : d \in {"float64", "undefined"}, n \in {1, 2}, l \in Layouts,
                            r \in BOOLEAN, a \in BOOLEAN}

SeriesTypes ==
    {SeriesType(d, 1, l, r, a) : d \in {"float64", "int64", "str", "undefined"}, l \in Layouts,
                                 r \in BOOLEAN, a \in BOOLEAN}

BoxedTypes == {BoxedSeriesType(d) : d \in {"float64", "str"}}

OtherTypes ==
    {intp, float64, string_type, slice2_type, none_type, pandas_timestamp_type,
     string_array_type, UnBoxedSeriesType("float64"),
     BoundFunction(<<"array", "sum">>, float_series), Function("len", "builtins")}

\* the types that the tuple types are made of
ElemTypes ==
    {float_series, string_series_type, SeriesType("float64", 1, "A", TRUE, FALSE),
     float_array, string_array_type, BoxedSeriesType("float64"), BoxedSeriesType("str"), intp}

\* tuple types, and tuple types of tuple types
TupleTypes ==
    LET flat == {TupleType(ts) : ts \in SeqsUpTo(ElemTypes, MaxTuple)}
    IN  flat \cup {TupleType(<<t, u>>) : t \in flat, u \in ElemTypes}

\* a type of a signature derived again and the recorded type at the same
\* position: an array whose element type the typer left undefined, with
\* the attributes of the recorded one or others, an array or a series
\* whose element type is defined, a scalar
FixElems ==
    {<<Array("undefined", 1, "C", FALSE, TRUE), float_array>>,
     <<Array("undefined", 1, "A", TRUE, FALSE), bool_array>>,
     <<SeriesType("undefined", 1, "C", FALSE, TRUE), float_array>>,
     <<float_array, Array("int64", 1, "C", FALSE, TRUE)>>,
     <<dt_index_series_type, Array("dt64", 1, "C", FALSE, TRUE)>>,
     <<intp, intp>>}

PairOfTuples(ps) ==
    <<TupleType([j \in 1..Len(ps) |-> ps[j][1]]), TupleType([j \in 1..Len(ps) |-> ps[j][2]])>>

\* the same for tuple types, and tuple types of tuple types
FixTypes ==
    LET flat == {PairOfTuples(ps) : ps \in SeqsUpTo(FixElems, MaxTuple)}
    IN  FixElems \cup flat \cup {PairOfTuples(<<t, u>>) : t \in flat, u \in FixElems}

\* (new_sig, old_sig): a signature derived again, or none, and the recorded one
FixSigs ==
    {<<Sig(r[1], <<>>), Sig(r[2], <<>>)>> : r \in FixTypes}
    \cup {<<Sig(intp, [j \in 1..Len(ps) |-> ps[j][1]]), Sig(intp, [j \in 1..Len(ps) |-> ps[j][2]])>> :
             ps \in SeqsUpTo(FixElems \cup {PairOfTuples(<<t, u>>) : t, u \in FixElems}, 2)}
    \cup {<<NoneSig, Sig(r[2], <<r[2]>>)>> : r \in FixElems}

TypInit ==
    /\ PassIdle
    /\ LoopIdle
    /\ StrIdle
    /\ RedIdle
    /\ top \in {"if_series_to_array_type", "series_to_array_type", "if_arr_to_series_type",
                "unify", "unify_pairs", "_fix_typ_undefs"}
    /\ \E typ \in CASE top \in {"if_series_to_array_type", "if_arr_to_series_type"} ->
                         ArrayTypes \cup SeriesTypes \cup BoxedTypes \cup OtherTypes
                                    \cup TupleTypes
                    [] top = "series_to_array_type" -> SeriesTypes \cup BoxedTypes
                    [] top = "_fix_typ_undefs" -> {p[1] : p \in FixSigs}
                    [] OTHER -> SeriesTypes :
          \E other \in CASE top \in {"unify", "unify_pairs"} -> SeriesTypes \cup {float_array, intp}
                          [] top = "_fix_typ_undefs" -> {p[2] : p \in {q \in FixSigs : q[1] = typ}}
                          [] OTHER -> {none_type} :
             \E replace_boxed \in IF top \in {"if_series_to_array_type", "series_to_array_type"}
                                  THEN BOOLEAN ELSE {FALSE} :
                targs = [typ |-> typ, other |-> other, replace_boxed |-> replace_boxed]
    /\ tres = [at |-> "call"]

\* if_series_to_array_type(typ, replace_boxed)
IfSeriesToArrayType ==
    /\ top = "if_series_to_array_type"
    /\ tres.at = "call"
    /\ tres' = Outcome(if_series_to_array_type(targs.typ, targs.replace_boxed))
    /\ UNCHANGED <<passVars, loopVars, strVars, redVars, top, targs>>

\* series_to_array_type(typ, replace_boxed)
SeriesToArrayType ==
    /\ top = "series_to_array_type"
    /\ tres.at = "call"
    /\ tres' = Outcome(series_to_array_type(targs.typ, targs.replace_boxed))
    /\ UNCHANGED <<passVars, loopVars, strVars, redVars, top, targs>>

\* if_arr_to_series_type(typ)
IfArrToSeriesType ==
    /\ top = "if_arr_to_series_type"
    /\ tres.at = "call"
    /\ tres' = Outcome(if_arr_to_series_type(targs.typ))
    /\ UNCHANGED <<passVars, loopVars, strVars, redVars, top, targs>>

\* if_arr_to_series_type of the type that if_series_to_array_type has
\* returned
BackToSeries ==
    /\ top = "if_series_to_array_type"
    /\ tres.at = "returned"
    /\ tres.raised = "none"
    /\ ~targs.replace_boxed
    /\ tres' = [at |-> "back", raised |-> Outcome(if_arr_to_series_type(tres.ret)).raised,
                ret |-> tres.ret, back |-> Outcome(if_arr_to_series_type(tres.ret)).ret]
    /\ UNCHANGED <<passVars, loopVars, strVars, redVars, top, targs>>

\* if_series_to_array_type of the type that if_arr_to_series_type has
\* returned
BackToArray ==
    /\ top = "if_arr_to_series_type"
    /\ tres.at = "returned"
    /\ tres.raised = "none"
    /\ tres' = [at |-> "back", raised |-> "none", ret |-> tres.ret,
                back |-> if_series_to_array_type(tres.ret, FALSE)]
    /\ UNCHANGED <<passVars, loopVars, strVars, redVars, top, targs>>

\* typ.unify(typingctx, other)
Unify ==
    /\ top = "unify"
    /\ tres.at = "call"
    /\ tres' = [at |-> "returned", raised |-> "none", ret |-> unify(targs.typ, targs.other)]
    /\ UNCHANGED <<passVars, loopVars, strVars, redVars, top, targs>>

\* type inference unifies typ and other: a TypingError when they have no
\* unified type
UnifyPairs ==
    /\ top = "unify_pairs"
    /\ tres.at = "call"
    /\ LET unified == unify_pairs(targs.typ, targs.other)
       IN  tres' = IF unified = none_type
                   THEN [at |-> "returned", raised |-> "TypingError", ret |-> none_type]
                   ELSE [at |-> "returned", raised |-> "none", ret |-> unified]
    /\ UNCHANGED <<passVars, loopVars, strVars, redVars, top, targs>>

\* the signature that replaces the recorded signature other when the
\* typer gave typ
FixTypUndefs ==
    /\ top = "_fix_typ_undefs"
    /\ tres.at = "call"
    /\ LET sig == FixSig(targs.typ, targs.other)
       IN  tres' = IF SigFailed(sig)
                   THEN [at |-> "returned", raised |-> "AssertionError", ret |-> none_type]
                   ELSE [at |-> "returned", raised |-> "none", ret |-> sig]
    /\ UNCHANGED <<passVars, loopVars, strVars, redVars, top, targs>>

TypNext ==
    \/ FixTypUndefs
    \/ IfSeriesToArrayType
    \/ SeriesToArrayType
    \/ IfArrToSeriesType
    \/ BackToSeries
    \/ BackToArray
    \/ Unify
    \/ UnifyPairs

TypSpec == TypInit /\ [][TypNext]_vars

(***************************************************************************)
(* Properties of run()                                                     *)
(***************************************************************************)

\* the signatures of a call-signature table that are not None
Sigs(ct) == {ct[c].sig : c \in {d \in DOMAIN ct : ct[d].sig # NoneSig}}

SigHasSeries(sig) == HasSeries(sig.return_type) \/ \E j \in 1..Len(sig.args) : HasSeries(sig.args[j])

\* the statements of a graph
StmtsOf(bs) == UNION {{bs[l][j] : j \in 1..Len(bs[l])} : l \in DOMAIN bs}

AssignsOf(bs) == {st \in StmtsOf(bs) : st.kind = "assign"}

\* C1: after run() completes no typemap entry is a SeriesType or contains
\* one: at top level, inside a tuple at any depth, as the receiver of a
\* bound method.
C1_NoSeriesInTypemap ==
    pc = "done" => \A v \in DOMAIN typemap : ~HasSeries(typemap[v])

\* C2, as claimed: after run() completes no typemap entry is a
\* BoxedSeriesType.
C2_NoBoxedInTypemap ==
    pc = "done" => \A v \in DOMAIN typemap : ~IsBoxed(typemap[v])

\* C2, amended: after run() completes the BoxedSeriesType entries of the
\* typemap are those of the initial typemap, unchanged; run() replaces none
\* and makes none.
C2_BoxedEntriesKept ==
    pc = "done" =>
        /\ \A v \in DOMAIN typemap0 :
              IsBoxed(typemap0[v]) => (v \in DOMAIN typemap /\ typemap[v] = typemap0[v])
        /\ \A v \in DOMAIN typemap :
              IsBoxed(typemap[v]) => (v \in DOMAIN typemap0 /\ typemap0[v] = typemap[v])

C2_Witness ==
    /\ pc = "done"
    /\ \E v \in DOMAIN typemap0 : IsBoxed(typemap0[v])
    /\ \E v \in DOMAIN typemap : IsBoxed(typemap[v])

NoSeriesGiven ==
    /\ \A v \in DOMAIN typemap0 : ~HasSeries(typemap0[v])
    /\ \A sig \in Sigs(calltypes0) : ~SigHasSeries(sig)

GraphKept == blocks = blocks0 /\ typemap = typemap0 /\ calltypes = calltypes0

\* C4, as claimed: run() on a graph with no SeriesType in its typemap and
\* call signatures changes neither the blocks, nor the typemap, nor the
\* call signatures.
C4_PhysicalGraphKept ==
    (pc = "done" /\ NoSeriesGiven) => GraphKept

\* the statements _run_assign gives back as they are
NoRuleApplies ==
    \A st \in AssignsOf(blocks0) :
        Dispatch(st, typemap0, df_cols) \in {"unchanged", "call_unresolved"}

\* C4, amended: run() on a graph with no SeriesType in its typemap and call
\* signatures, and with no statement that a rule of _run_assign takes
\* (a comparison with a string array, a filter of a dataframe column, a call
\* of hpat.hiframes_api, numpy.empty_like, pandas.DatetimeIndex), changes
\* neither the blocks, nor the typemap, nor the call signatures.
C4_PhysicalGraphKeptIfNoRule ==
    (pc = "done" /\ NoSeriesGiven /\ NoRuleApplies) => GraphKept

\* such a run, of a graph with a call whose signature is derived again
C4_Witness ==
    /\ pc = "done"
    /\ NoSeriesGiven
    /\ NoRuleApplies
    /\ \E c \in DOMAIN calltypes0 :
          /\ calltypes0[c].expr.op = "call"
          /\ calltypes0[c].sig # NoneSig
          /\ get_call_type(typemap0[calltypes0[c].expr.func], calltypes0[c].sig.args) # NoneSig

(***************************************************************************)
(* Properties of _run_assign                                               *)
(***************************************************************************)

\* whether the condition of a rule holds of a statement
Matches(r, assign, tm, cols) ==
    LET rhs == assign.value
    IN  CASE r = "values" -> IsValuesGetattr(rhs, tm)
          [] r = "string_array_expr" -> IsStringArrayExpr(rhs, tm)
          [] r = "df_col_filter" -> IsDfColFilter(assign.target, rhs, tm, cols)
          [] r = "dt_getitem" -> IsDtGetitem(rhs, tm)
          [] r = "dt_index_binop" -> is_dt_index_binop(rhs, tm)
          [] r = "call" ->
                /\ rhs.op = "call"
                /\ Resolved(rhs)
                /\ \/ CallName(rhs) = <<"DatetimeIndex", "pandas">>
                   \/ CallName(rhs)[2] = "hpat.hiframes_api"
                   \/ CallName(rhs) = <<"empty_like", "numpy">>
          [] r = "unchanged" -> TRUE

\* the rule of the claims that a handler of the model belongs to
RuleClass(r) ==
    IF r \in {"DatetimeIndex", "hiframes_call", "empty_like"} THEN "call"
    ELSE IF r = "call_unresolved" THEN "unchanged"
    ELSE r

\* the rules at the first place of an order that has a rule whose condition holds
FirstMatch(order, assign, tm, cols) ==
    LET hit(j) == \E r \in order[j] : Matches(r, assign, tm, cols)
    IN  order[CHOOSE j \in 1..Len(order) : hit(j) /\ \A m \in 1..(j - 1) : ~hit(m)]

\* _run_assign is about to be given an assignment
GivenAssign == pc = "body" /\ idx <= Len(body) /\ body[idx].kind = "assign"

ClaimedOrder ==
    << {"values"}, {"string_array_expr"}, {"dt_getitem"}, {"dt_index_binop"},
       {"call", "df_col_filter"}, {"unchanged"} >>

CodeOrder ==
    << {"values"}, {"string_array_expr"}, {"df_col_filter"}, {"dt_getitem"},
       {"call"}, {"dt_index_binop"}, {"unchanged"} >>

\* C6, as claimed: _run_assign applies the first rule that matches in the
\* order .values, string comparison, getitem on a dt_index, comparison of a
\* dt_index with a string, recognized call (the filter of a dataframe column
\* included), unchanged.
C6_ClaimedOrderFollowed ==
    [][GivenAssign => RuleClass(rule') \in FirstMatch(ClaimedOrder, body[idx], typemap, df_cols)]_vars

\* C6, amended: _run_assign applies the first rule that matches in the
\* order .values, string comparison, filter of a dataframe column, getitem
\* on a dt_index, recognized call, comparison of a dt_index with a string,
\* unchanged.
C6_CodeOrderFollowed ==
    [][GivenAssign => RuleClass(rule') \in FirstMatch(CodeOrder, body[idx], typemap, df_cols)]_vars

\* a statement that is both a filter of a dataframe column and a getitem on
\* a dt_index has been given to _run_assign
C6_Witness ==
    /\ rule = "df_col_filter"
    /\ IsDtGetitem(inst.value, typemap0)
    /\ IsDfColFilter(inst.target, inst.value, typemap0, df_cols)

\* the last statement given to _run_assign is a relational comparison
RelGiven ==
    /\ rule # "none"
    /\ inst.kind = "assign"
    /\ inst.value.op = "binop"
    /\ inst.value.fn \in RelOps

LeftType == typemap0[inst.value.lhs]

RightType == typemap0[inst.value.rhs]

BothDt == LeftType = dt_index_series_type /\ RightType = dt_index_series_type

\* one operand is a dt_index and the other has none of the types ok
DtAgainst(ok) ==
    \/ LeftType = dt_index_series_type /\ RightType \notin ok
    \/ RightType = dt_index_series_type /\ LeftType \notin ok

\* C7, as claimed: a relational comparison of two dt_index operands, or of
\* a dt_index with an operand that is neither a string nor a dt_index, makes
\* run() fail with the error of _handle_dt_index_binop.
C7_UnsupportedRaises ==
    (RelGiven /\ (BothDt \/ DtAgainst({dt_index_series_type, string_type})))
        => (pc = "raised" /\ err = "ValueError")

\* C7, amended: a relational comparison of a dt_index with an operand that
\* is neither a string, nor a dt_index, nor a string array or string series
\* makes run() fail with ValueError; a comparison of two dt_index operands
\* is left in the graph as it is, with no error.
C7_UnsupportedRaisesUnlessBothDt ==
    RelGiven =>
        /\ DtAgainst({dt_index_series_type, string_type, string_array_type, string_series_type})
              => (pc = "raised" /\ err = "ValueError" /\ rule = "dt_index_binop")
        /\ BothDt => (rule = "unchanged" /\ out.kind = "list" /\ out.nodes = <<inst>>
                      /\ pc # "raised")

C7_Witness ==
    /\ RelGiven
    /\ DtAgainst({dt_index_series_type, string_type, string_array_type, string_series_type})
    /\ LeftType = intp
    /\ pc = "raised"

\* C9: a getitem or static_getitem on a dt_index with an integer or a slice
\* index is replaced by a list of statements, with no new block, whose last
\* statement assigns the target of the original statement; for both kinds of
\* index the rewrite succeeds.
C9_DtGetitemRewritten ==
    (/\ rule = "dt_getitem"
     /\ typemap0[IF inst.value.op = "getitem" THEN inst.value.index ELSE inst.value.index_var]
           \in {intp, slice2_type})
        => /\ pc # "raised"
           /\ out.kind = "list"
           /\ out.blocks = <<>>
           /\ out.nodes # <<>>
           /\ out.nodes[Len(out.nodes)].kind = "assign"
           /\ out.nodes[Len(out.nodes)].target = inst.target

\* the calls that a loop template replaces
TemplateCalls ==
    {<<n, "hpat.hiframes_api">> :
        n \in {"count", "column_sum", "mean", "var", "fillna",
               "str_contains_regex", "str_contains_noregex"}}
    \cup {<<"empty_like", "numpy">>}

IsCallOf(st, names) == st.kind = "assign" /\ st.value.op = "call" /\ st.value.callname \in names

\* the call is gone and another statement of the graph assigns its target
Rebound(st) ==
    /\ st \notin StmtsOf(blocks)
    /\ \E s2 \in AssignsOf(blocks) : s2.target = st.target

\* C10, as claimed: what replaces a call of count, column_sum, mean, var,
\* fillna, str_contains_regex, str_contains_noregex or empty_like holds an
\* assignment to the result variable of the call.
C10_ResultAssigned ==
    pc = "done" => \A st \in AssignsOf(blocks0) : IsCallOf(st, TemplateCalls) => Rebound(st)

\* C10, amended: what replaces a call of count, column_sum, mean, var,
\* str_contains_regex, str_contains_noregex or empty_like holds an assignment
\* to the result variable of the call; what replaces a call of fillna holds
\* none: the graph is left with no assignment to that variable.
C10_ResultAssignedButFillna ==
    pc = "done" =>
        \A st \in AssignsOf(blocks0) :
            /\ IsCallOf(st, TemplateCalls \ {<<"fillna", "hpat.hiframes_api">>}) => Rebound(st)
            /\ IsCallOf(st, {<<"fillna", "hpat.hiframes_api">>})
                  => (st \notin StmtsOf(blocks)
                      /\ \A s2 \in AssignsOf(blocks) : s2.target # st.target)

C10_Witness ==
    /\ pc = "done"
    /\ \E st \in AssignsOf(blocks0) : IsCallOf(st, {<<"var", "hpat.hiframes_api">>}) /\ Rebound(st)

\* _run_assign is about to be given a call whose callee find_callname does
\* not find
UnresolvedGiven ==
    GivenAssign /\ body[idx].value.op = "call" /\ ~Resolved(body[idx].value)

\* C11: a call whose callee is not identified does not end run(): the
\* statement is put in the new body as it is, a warning is issued unless the
\* callee is a make_function closure, and run() goes on with the next
\* statement of the block.
C11_UnresolvedCallKept ==
    [][UnresolvedGiven =>
          /\ pc' = "body"
          /\ err' = "none"
          /\ idx' = idx + 1
          /\ new_body' = Append(new_body, body[idx])
          /\ blocks' = blocks
          /\ body[idx].value.callname[2] # "make_function" => warned'
          /\ body[idx].value.callname[2] = "make_function" => (warned' = warned)]_vars

\* run() has completed on a function with such a call, with a warning
C11_Witness ==
    /\ pc = "done"
    /\ rule = "call_unresolved"
    /\ inst \in StmtsOf(blocks)
    /\ warned

\* r is t with every SeriesType in it, at any tuple depth, replaced by the
\* UnBoxedSeriesType of its dtype, and nothing else changed
RECURSIVE Unboxes(_, _)
Unboxes(r, t) ==
    IF IsSeries(t) THEN r = UnBoxedSeriesType(t.dtype)
    ELSE IF IsTuple(t)
    THEN /\ IsTuple(r)
         /\ Len(r.types) = Len(t.types)
         /\ \A j \in 1..Len(t.types) : Unboxes(r.types[j], t.types[j])
    ELSE r = t

\* C12: run() returns UnBoxedSeriesType(dtype) for a declared result type
\* SeriesType of that dtype, does the same to every component of a tuple
\* result type at any depth, and returns any other result type unchanged.
C12_ResultUnboxed ==
    pc = "done" => Unboxes(result, return_type)

\* run() has returned for a tuple result type that holds a tuple with a series
C12_Witness ==
    /\ pc = "done"
    /\ IsTuple(return_type)
    /\ \E j \in 1..Len(return_type.types) :
          IsTuple(return_type.types[j]) /\ HasSeries(return_type.types[j])
    /\ result # return_type

(***************************************************************************)
(* Properties of the generated loops                                       *)
(***************************************************************************)

\* what an operand of a string comparison gives at index i
StrOperandAt(t, v, i) == IF is_str_arr_typ(t) THEN v[i] ELSE v

\* the count of the string buffer
StrCount == IF is_str_arr_typ(lt1) THEN Len(larg1) ELSE Len(larg2)

\* C5: for a relational operator on (buffer, string), (string, buffer) or
\* two buffers of equal count the loop of _handle_string_array_expr gives a
\* boolean buffer S of the count of the buffer, S[i] being the comparison of
\* the left operand at i with the right operand at i, in this order.
C5_StringLoopElementwise ==
    (lkind = "str" /\ lpc \in {"done", "raised"}) =>
        /\ lpc = "done"
        /\ Len(lS) = StrCount
        /\ \A i \in 1..StrCount :
              lS[i] = CmpStr(lfn, StrOperandAt(lt1, larg1, i), StrOperandAt(lt2, larg2, i))

\* the operator that gives the same result with the operands exchanged
Mirror(fn) ==
    CASE fn = "==" -> "=="
      [] fn = "!=" -> "!="
      [] fn = ">=" -> "<="
      [] fn = ">" -> "<"
      [] fn = "<=" -> ">="
      [] fn = "<" -> ">"

\* C8: for a comparison of a dt_index D with a string t the loop gives a
\* boolean buffer of length len(D) with element i being D[i] op parse(t)
\* when D is the left operand and parse(t) op D[i] when it is the right
\* one, which is what the mirrored operator gives with the operands exchanged.
C8_DtTextLoop ==
    (lkind = "dt" /\ lpc = "done") =>
        LET dleft == lt1 = dt_index_series_type
            D == IF dleft THEN larg1 ELSE larg2
            t == IF dleft THEN larg2 ELSE larg1
        IN  /\ Len(lS) = Len(D)
            /\ \A i \in 1..Len(D) :
                  /\ lS[i] = (IF dleft THEN CmpInt(lfn, D[i], parse[t])
                              ELSE CmpInt(lfn, parse[t], D[i]))
                  /\ lS[i] = (IF dleft THEN CmpInt(Mirror(lfn), parse[t], D[i])
                              ELSE CmpInt(Mirror(lfn), D[i], parse[t]))

\* t <= D has run on a column whose two dates compare differently with t
C8_Witness ==
    /\ lkind = "dt"
    /\ lpc = "done"
    /\ lt2 = dt_index_series_type
    /\ lfn = "<="
    /\ Len(lS) = 2
    /\ lS[1] /\ ~lS[2]

(***************************************************************************)
(* Properties of the string buffer                                         *)
(***************************************************************************)

\* the function has returned a buffer
Returned(op) == sop = op /\ sres.at = "returned" /\ sres.ret.raised = "none"

\* C13: getitem of a string buffer B with a boolean array M of as many
\* entries as B has items returns a new buffer whose number of items is the
\* number of true entries of M and whose k-th item is the item of B at the
\* k-th true position of M.
C13_MaskSelects ==
    (sop = "getitem_bool" /\ sres.at = "returned"
                          /\ Len(sargs.ind) = str_arr_len(sargs.str_arr)) =>
        LET B == sargs.str_arr
            M == sargs.ind
            R == sres.ret.out_arr
        IN  /\ Returned("getitem_bool")
            /\ str_arr_len(R) = Cardinality({i \in 1..Len(M) : M[i]})
            /\ \A i \in 1..Len(M) :
                  M[i] => lower_string_arr_getitem(R, Cardinality({j \in 1..(i - 1) : M[j]}))
                              = lower_string_arr_getitem(B, i - 1)

C13_Witness ==
    /\ Returned("getitem_bool")
    /\ sargs.str_list = <<<<1, 2>>, <<1>>, <<2>>>>
    /\ sargs.ind = <<TRUE, FALSE, TRUE>>
    /\ str_arr_len(sres.ret.out_arr) = 2
    /\ lower_string_arr_getitem(sres.ret.out_arr, 1) = <<2>>

\* C14: getitem of a string buffer B with a boolean array whose length is
\* not the number of items of B raises the length-mismatch error
\* (IndexError) before any item of B is read and before any buffer is
\* allocated, and leaves B as it was.
C14_MismatchRaisesFirst ==
    (sop = "getitem_bool" /\ sres.at = "returned"
                          /\ Len(sargs.ind) # str_arr_len(sargs.str_arr)) =>
        /\ sres.ret.raised = "IndexError"
        /\ sres.ret.reads = 0
        /\ sres.ret.allocs = 0
        /\ sres.ret.str_arr = sargs.str_arr

C14_Witness ==
    /\ sop = "getitem_bool"
    /\ sres.at = "returned"
    /\ sres.ret.raised = "IndexError"
    /\ str_arr_len(sargs.str_arr) = 2
    /\ sargs.ind = <<TRUE, TRUE, TRUE>>

\* C15: getitem of a string buffer B with an array I of valid indices of B
\* returns a new buffer of len(I) items whose k-th item is the item of B at
\* I[k]; an index may occur several times and the indices come in any
\* order.
C15_IndexSelects ==
    (sop = "getitem_arr" /\ sres.at = "returned") =>
        LET B == sargs.str_arr
            I == sargs.ind
            R == sres.ret.out_arr
        IN  /\ Returned("getitem_arr")
            /\ str_arr_len(R) = Len(I)
            /\ \A k \in 1..Len(I) :
                  lower_string_arr_getitem(R, k - 1) = lower_string_arr_getitem(B, I[k])

C15_Witness ==
    /\ Returned("getitem_arr")
    /\ sargs.str_list = <<<<1, 2>>, <<>>, <<2>>>>
    /\ sargs.ind = <<2, 0, 2>>
    /\ sres.ret.out_arr.offsets = <<0, 1, 3, 4>>
    /\ sres.ret.out_arr.data = <<2, 1, 2, 2>>

\* C16: the list that to_string_list returns for the buffer that
\* str_list_to_array has made from a list of texts S is S: the same
\* length, the same texts, the same order.
C16_RoundTrip ==
    (sop = "str_list_to_array" /\ sres.at = "list") =>
        /\ Len(sres.l_str) = Len(sargs.str_list)
        /\ \A i \in 1..Len(sargs.str_list) : sres.l_str[i] = sargs.str_list[i]

C16_Witness ==
    /\ sop = "str_list_to_array"
    /\ sres.at = "list"
    /\ sargs.str_list = <<<<1, 2>>, <<>>, <<1>>>>
    /\ sres.str_arr.offsets = <<0, 2, 2, 3>>
    /\ sres.l_str = <<<<1, 2>>, <<>>, <<1>>>>

(***************************************************************************)
(* Properties of the reduction templates                                   *)
(***************************************************************************)

\* the indices of the elements of A that are not missing
NonMissing(A) == {i \in 1..Len(A) : ~isnan(A[i])}

\* the sums of the floats f[i], i in I: the floats that adding them gives,
\* in any order and any grouping, each addition rounded
RECURSIVE FloatSums(_, _)
FloatSums(f, I) ==
    IF I = {} THEN {Num(0)}
    ELSE IF Cardinality(I) = 1 THEN {f[i] : i \in I}
    ELSE UNION {{Arith("+", a, b) : a \in FloatSums(f, J), b \in FloatSums(f, I \ J)} :
                   J \in (SUBSET I) \ {{}, I}}

\* C17: the count template returns the number of elements of A that are
\* not missing; when A has an element that is not missing, the sum
\* template returns the sum of the elements that are not missing and the
\* mean template that sum divided by their number.
C17_CountSumMean ==
    rpc = "done" =>
        LET I == NonMissing(rA)
        IN  /\ rfn = "count" => rres = Cardinality(I)
            /\ (rfn = "column_sum" /\ I # {}) => rres \in FloatSums(rA, I)
            /\ (rfn = "mean" /\ I # {}) =>
                  /\ rred.count = Cardinality(I)
                  /\ rred.s \in FloatSums(rA, I)
                  /\ rres = Arith("/", rred.s, Num(Cardinality(I)))

C17_Witness ==
    /\ rpc = "done"
    /\ rfn = "mean"
    /\ rA = <<Num(0 - 1), nan, Num(8)>>
    /\ rred.s = Num(7)
    /\ rres = [k |-> "num", n |-> 7, d |-> 2]

\* C18: for a column of length zero or with every element missing, count
\* is 0 and sum, mean, variance, min and max are nan; the mean template
\* divides by count only when count > 0.
C18_EmptyGivesNan ==
    rpc = "done" =>
        /\ NonMissing(rA) = {} =>
              /\ rred.count = 0
              /\ rfn = "count" => rres = 0
              /\ rfn \in {"column_sum", "mean", "var", "min", "max"} => isnan(rres)
        /\ rfn = "mean" =>
              rres = (IF rred.count > 0 THEN Arith("/", rred.s, Num(rred.count)) ELSE nan)

C18_Witness ==
    /\ rpc = "done"
    /\ rfn = "min"
    /\ rA = <<nan, nan>>
    /\ rred = [s |-> Inf(1), count |-> 0]
    /\ isnan(rres)

\* the squares of the deviations from m of the elements of A
SqDev(A, m) == [i \in 1..Len(A) |-> Arith("*", Arith("-", A[i], m), Arith("-", A[i], m))]

\* C19: the variance template returns nan when at most one element is not
\* missing, and otherwise the sum of the squares of the deviations from
\* the mean divided by count - 1; both loops skip the same elements: the
\* count of the second loop is the count that the mean was computed with.
C19_Variance ==
    (rpc = "done" /\ rfn = "var") =>
        LET I == NonMissing(rA)
        IN  /\ rm.count_m = Cardinality(I)
            /\ rred.count = rm.count_m
            /\ Cardinality(I) <= 1 => isnan(rres)
            /\ Cardinality(I) > 1 =>
                  /\ rm.m \in {Arith("/", t, Num(Cardinality(I))) : t \in FloatSums(rA, I)}
                  /\ rred.s \in FloatSums(SqDev(rA, rm.m), I)
                  /\ rres = Arith("/", rred.s, Num(Cardinality(I) - 1))

C19_Witness ==
    /\ rpc = "done"
    /\ rfn = "var"
    /\ rA = <<Num(0 - 1), nan, Num(1)>>
    /\ rm = [m |-> Num(0), count_m |-> 2]
    /\ rred = [s |-> Num(2), count |-> 2]
    /\ rres = Num(2)

\* res of template fn on column A when one worker runs the iterations of
\* every loop in the order of the indices
Sequential(fn, A) ==
    LET run(loop, m) ==
            LET v[i \in 0..Len(A)] ==
                    IF i = 0 THEN RedVars0(fn) ELSE LoopBody(fn, loop, v[i - 1], A[i], m)
            IN  v[Len(A)]
        first == run("loop", Num(0))
    IN  IF fn = "var"
        THEN Res(fn, run("loop2", mean_handle_nan(first.s, first.count)))
        ELSE Res(fn, first)

\* C20, as claimed: the result of every reduction template (count, sum,
\* mean, variance, min, max) is the same for every partition of the
\* iterations among workers and every order of the iterations and of the
\* merges: it is the result of the run of one worker in index order.
C20_SameForEveryPartition ==
    rpc = "done" => rres = Sequential(rfn, rA)

\* C20, amended: the result of count, min and max is the same for every
\* partition and order; the result of sum, mean and variance is the same
\* for every partition and order when all orders and groupings of the
\* floating-point additions give the same sum, and the count that they
\* divide by is always the same.
C20_SameUpToRounding ==
    rpc = "done" =>
        LET I == NonMissing(rA)
            means == {mean_handle_nan(t, Cardinality(I)) : t \in FloatSums(rA, I)}
        IN  /\ rfn \in {"count", "min", "max"} => rres = Sequential(rfn, rA)
            /\ rred.count = Cardinality(I)
            /\ (rfn \in {"column_sum", "mean"} /\ Cardinality(FloatSums(rA, I)) = 1) =>
                  rres = Sequential(rfn, rA)
            /\ (rfn = "var" /\ Cardinality(FloatSums(rA, I)) = 1
                            /\ \A m \in means : Cardinality(FloatSums(SqDev(rA, m), I)) = 1) =>
                  rres = Sequential(rfn, rA)

C20_Witness ==
    /\ rpc = "done"
    /\ rfn = "column_sum"
    /\ rA = <<Num(8), Num(1), Num(1)>>
    /\ rres = Num(10)
    /\ Sequential(rfn, rA) = Num(8)

(***************************************************************************)
(* Properties of the functions on types                                    *)
(***************************************************************************)

\* r is typ with its series types, and its boxed series types when
\* replace_boxed, replaced by their array types, in tuples at any depth
RECURSIVE Converted(_, _, _)
Converted(r, typ, replace_boxed) ==
    IF IsSeries(typ) \/ (replace_boxed /\ IsBoxed(typ))
    THEN r = series_to_array_type(typ, replace_boxed)
    ELSE IF IsTuple(typ)
    THEN /\ IsTuple(r)
         /\ Len(r.types) = Len(typ.types)
         /\ \A i \in 1..Len(typ.types) : Converted(r.types[i], typ.types[i], replace_boxed)
    ELSE r = typ

\* C21: if_series_to_array_type returns a type that is no SeriesType, no
\* tuple type and (when replace_boxed) no BoxedSeriesType unchanged, returns
\* for a tuple type the tuple of the converted component types,
\* recursively, never raises, and returns equal types for equal arguments.
C21_IfSeriesToArrayType ==
    (top = "if_series_to_array_type" /\ tres.at \in {"returned", "back"}) =>
        LET typ == targs.typ
            replace_boxed == targs.replace_boxed
        IN  /\ tres.at = "returned" => tres.raised = "none"
            /\ (~IsSeries(typ) /\ ~IsTuple(typ) /\ ~(replace_boxed /\ IsBoxed(typ))) =>
                  tres.ret = typ
            /\ Converted(tres.ret, typ, replace_boxed)
            /\ tres.ret = if_series_to_array_type(typ, replace_boxed)

C21_Witness ==
    /\ top = "if_series_to_array_type"
    /\ tres.at = "returned"
    /\ targs.replace_boxed
    /\ targs.typ = TupleType(<<TupleType(<<float_series, intp>>), BoxedSeriesType("str")>>)
    /\ tres.ret = TupleType(<<TupleType(<<float_array, intp>>), string_array_type>>)

\* C22: with replace_boxed false, series_to_array_type and
\* if_series_to_array_type return every BoxedSeriesType unchanged, whatever
\* its element type; with replace_boxed true they return the array type of
\* the same element type.
C22_BoxedKeptUnlessAsked ==
    (top \in {"series_to_array_type", "if_series_to_array_type"}
        /\ tres.at \in {"returned", "back"} /\ IsBoxed(targs.typ)) =>
        tres.ret = (IF ~targs.replace_boxed THEN targs.typ
                    ELSE IF targs.typ.dtype = "str" THEN string_array_type
                    ELSE Array(targs.typ.dtype, 1, "C", FALSE, TRUE))

\* the call of a conversion and of the other conversion on its result
RoundTrip(op) == top = op /\ tres.at = "back" /\ ~targs.replace_boxed

\* C23, as claimed: for every array type t and for the string array type
\* if_series_to_array_type(if_arr_to_series_type(t)) = t, and for every
\* SeriesType s, of numbers or of text, of any layout, mutability and
\* alignment, if_arr_to_series_type(if_series_to_array_type(s)) = s.
C23_Inverse ==
    /\ (top = "if_arr_to_series_type" /\ tres.at = "returned"
           /\ (IsArray(targs.typ) \/ targs.typ = string_array_type)) => tres.raised = "none"
    /\ (RoundTrip("if_arr_to_series_type")
           /\ (IsArray(targs.typ) \/ targs.typ = string_array_type)) => tres.back = targs.typ
    /\ (RoundTrip("if_series_to_array_type") /\ IsSeries(targs.typ)) =>
           (tres.raised = "none" /\ tres.back = targs.typ)

\* C23, amended: the same for the array types of one dimension, the string
\* array type, the series types whose element type is not text and
\* string_series_type; if_arr_to_series_type raises AssertionError for an
\* array type of another dimension, and a series type of text comes back
\* as string_series_type.
C23_InverseOneDimNotText ==
    /\ (top = "if_arr_to_series_type" /\ tres.at = "returned" /\ IsArray(targs.typ)) =>
           (tres.raised = (IF targs.typ.ndim = 1 THEN "none" ELSE "AssertionError"))
    /\ (RoundTrip("if_arr_to_series_type")
           /\ (IsArray(targs.typ) \/ targs.typ = string_array_type)) => tres.back = targs.typ
    /\ (RoundTrip("if_series_to_array_type") /\ IsSeries(targs.typ)) =>
           /\ tres.raised = "none"
           /\ tres.back = (IF targs.typ.dtype = "str" THEN string_series_type ELSE targs.typ)

C23_Witness ==
    /\ RoundTrip("if_series_to_array_type")
    /\ targs.typ = SeriesType("float64", 1, "F", TRUE, FALSE)
    /\ tres.ret = Array("float64", 1, "F", TRUE, FALSE)
    /\ tres.back = targs.typ

\* a.unify(b) has returned, for two series types a and b
Unified == top = "unify" /\ tres.at = "returned" /\ IsSeries(targs.other)

\* r is the series type of element type dtype that unifies a and b: the
\* common layout or 'A', mutable and aligned when both are
UnifiedType(r, dtype, a, b) ==
    /\ IsSeries(r)
    /\ r.dtype = dtype
    /\ r.ndim = 1
    /\ r.layout = (IF a.layout = b.layout THEN a.layout ELSE "A")
    /\ r.mutable = (a.mutable /\ b.mutable)
    /\ r.aligned = (a.aligned /\ b.aligned)

\* C24, as claimed: a.unify(b) returns a SeriesType whenever the element
\* types of a and b are equal or the element type of either is not fully
\* inferred, with the common layout or 'A', mutable and aligned only when
\* both are.
C24_UnifyEither ==
    LET a == targs.typ
        b == targs.other
    IN  (Unified /\ (a.dtype = b.dtype \/ ~is_precise(a.dtype) \/ ~is_precise(b.dtype))) =>
            UnifiedType(tres.ret, tres.ret.dtype, a, b)

\* C24, amended: a.unify(b) returns such a SeriesType, of the element type
\* of a, whenever the element types are equal or that of b is not fully
\* inferred; when only that of a is not fully inferred it returns None.
C24_UnifyOther ==
    LET a == targs.typ
        b == targs.other
    IN  /\ (Unified /\ (a.dtype = b.dtype \/ ~is_precise(b.dtype))) =>
               UnifiedType(tres.ret, a.dtype, a, b)
        /\ (Unified /\ ~is_precise(a.dtype) /\ is_precise(b.dtype)) => tres.ret = none_type

C24_Witness ==
    /\ Unified
    /\ targs.typ = SeriesType("float64", 1, "C", FALSE, TRUE)
    /\ targs.other = SeriesType("undefined", 1, "F", TRUE, FALSE)
    /\ tres.ret = SeriesType("float64", 1, "A", TRUE, FALSE)

\* two series types whose element types are fully inferred and differ
Mismatch ==
    /\ top \in {"unify", "unify_pairs"}
    /\ tres.at = "returned"
    /\ IsSeries(targs.other)
    /\ is_precise(targs.typ.dtype)
    /\ is_precise(targs.other.dtype)
    /\ targs.typ.dtype # targs.other.dtype

RECURSIVE Completed(_, _, _)
Completed(r, n, o) ==
    IF IsTuple(n)
    THEN /\ IsTuple(r)
         /\ IsTuple(o)
         /\ Len(r.types) = Len(n.types)
         /\ Len(n.types) <= Len(o.types)
         /\ \A j \in 1..Len(n.types) : Completed(r.types[j], n.types[j], o.types[j])
    ELSE IF n.k \in {"Array", "Series"} /\ n.dtype = "undefined"
    THEN /\ o.k \in {"Array", "Series"}
         /\ r = [n EXCEPT !.dtype = o.dtype]
    ELSE r = n

Occurs(stmt, seq) == \E p \in 1..Len(seq) : seq[p] = stmt

IsGenerated(l) == l \notin DOMAIN blocks0

\* the statements along the control flow from the entry of block l, through
\* the generated blocks, to the terminator that leaves them
RECURSIVE Walk(_, _)
Walk(bs, l) ==
    LET b == bs[l]
    IN  IF b # <<>> /\ b[Len(b)].kind = "jump" /\ IsGenerated(b[Len(b)].label)
        THEN DropLast(b, 1) \o Walk(bs, b[Len(b)].label)
        ELSE b

\* no rule of _run_assign takes the statement
NoRule(stmt) ==
    \/ stmt.kind # "assign"
    \/ Dispatch(stmt, typemap0, df_cols) \in {"unchanged", "call_unresolved"}

\* the index in orig of the last statement of orig before position p of w,
\* and of the first after it
OrigBefore(w, orig, p) ==
    LET before == {j \in 1..Len(orig) : \E q \in 1..(p - 1) : w[q] = orig[j]}
    IN  IF before = {} THEN 0 ELSE CHOOSE j \in before : \A k \in before : k <= j

OrigAfter(w, orig, p) ==
    LET after == {j \in 1..Len(orig) : \E q \in (p + 1)..Len(w) : w[q] = orig[j]}
    IN  IF after = {} THEN Len(orig) + 1 ELSE CHOOSE j \in after : \A k \in after : j <= k

InPlace(w, orig) ==
    /\ SelectSeq(w, LAMBDA stmt : Occurs(stmt, orig))
         = SelectSeq(orig, LAMBDA stmt : Occurs(stmt, w))
    /\ \A j \in 1..Len(orig) : NoRule(orig[j]) => Occurs(orig[j], w)
    /\ \A p \in 1..Len(w) :
          ~Occurs(w[p], orig) =>
              \E j \in (OrigBefore(w, orig, p) + 1)..(OrigAfter(w, orig, p) - 1) :
                  ~Occurs(orig[j], w)

\* C27: after run(), along the control flow from the entry of each original
\* block, every original statement that no rule replaced appears exactly
\* once, unchanged and in the original order, and what replaces a statement
\* stands where the statement stood: between the statements before it,
\* which stay in the truncated block, and those after it, terminator
\* included, which follow the exit of the generated blocks; the bodies that
\* run() iterates are those of the original blocks only.
C27_StatementsInPlace ==
    /\ pc = "done" => \A l \in DOMAIN blocks0 : InPlace(Walk(blocks, l), blocks0[l])
    /\ pc = "body" => \E l \in DOMAIN blocks0 : body = blocks0[l]

\* a call that a loop template replaced, with a statement that is no
\* assignment after it: the truncated block holds the jump into the
\* generated blocks, the statement and the terminator follow the loop
C27_Witness ==
    /\ pc = "done"
    /\ LET orig == blocks0[0]
           w == Walk(blocks, 0)
       IN  /\ Len(orig) = 3
           /\ ~NoRule(orig[1])
           /\ orig[2].kind = "other"
           /\ Len(blocks[0]) = 1
           /\ IsGenerated(blocks[0][1].label)
           /\ w[Len(w) - 1] = orig[2]
           /\ w[Len(w)] = orig[3]
           /\ \E p \in 1..(Len(w) - 2) : w[p].kind = "loop"

\* the step is the sweep of the typemap
InSweep == pc = "next" /\ topo = <<>>

\* C28, as claimed: while the blocks are traversed no typemap entry of a
\* variable that existed before the pass is changed; these entries are
\* rewritten only in the sweep after the last block.
C28_ChangedOnlyInSweep ==
    [][\A v \in DOMAIN typemap0 : typemap'[v] # typemap[v] => InSweep]_vars

\* C28, amended: a typemap entry of a variable that existed before the pass
\* is changed only in the sweep after the last block, or when a string
\* comparison is rewritten and the variable is an operand of it that is a
\* string column: its entry becomes the string buffer type at once.
C28_ChangedInSweepOrStringExpr ==
    [][\A v \in DOMAIN typemap0 :
          typemap'[v] # typemap[v] =>
              \/ InSweep
              \/ /\ AtAssign("string_array_expr")
                 /\ v \in {body[idx].value.lhs, body[idx].value.rhs}
                 /\ typemap[v] = string_series_type
                 /\ typemap'[v] = string_array_type]_vars

\* the string column S of `S == s` has the string buffer type while the
\* block is still traversed
C28_Witness ==
    /\ pc = "body"
    /\ rule = "string_array_expr"
    /\ V("S") \in DOMAIN typemap0
    /\ typemap0[V("S")] = string_series_type
    /\ typemap[V("S")] = string_array_type

(***************************************************************************)
(* Properties of the element-wise loops                                    *)
(***************************************************************************)

\* what the body of the loop reads, as func_text or the template names it
Accesses ==
    CASE lkind = "str" -> {ltext.arg1_access, ltext.arg2_access}
      [] lkind = "dt" -> {ltext.left, ltext.right}
      [] lkind = "contains" -> {ltext.arg1_access, ltext.arg2_access}
      [] OTHER -> ltext.reads

IsBuffer(t) == is_str_arr_typ(t) \/ IsArray(t) \/ IsSeries(t)

\* the access is to element i of a buffer, or to an operand that is a scalar
ElementOnly(access) ==
    CASE access \in {"A[i]", "B[i]", "str_arr[i]", "dt_index[i]", "ind[i]"} -> TRUE
      [] access = "other" -> TRUE
      [] access = "A" -> ~IsBuffer(lt1)
      [] access \in {"B", "pat", "fill"} -> ~IsBuffer(lt2)

RECURSIVE CallsChars(_)
CallsChars(calls) ==
    IF calls = <<>> THEN 0 ELSE Head(calls)[2] + CallsChars(Tail(calls))

\* out_arr was allocated for alloc = (n, c) and filled by calls
TwoPass(out_arr, alloc, calls) ==
    LET n == alloc[1]
        c == alloc[2]
    IN  /\ Len(calls) = n
        /\ \A k \in 1..n : calls[k][1] = k - 1
        /\ CallsChars(calls) = c
        /\ out_arr.num_items = n
        /\ Len(out_arr.offsets) = n + 1
        /\ out_arr.offsets[1] = 0
        /\ \A k \in 1..n : out_arr.offsets[k] <= out_arr.offsets[k + 1]
        /\ out_arr.offsets[n + 1] = c
        /\ out_arr.num_total_chars = c
        /\ Len(out_arr.data) = c

\* C30: a string buffer built in two passes (from a list of strings, with
\* a boolean mask, with an array of indices) is allocated for the number of
\* items n and the number of characters c that the second pass writes:
\* the second pass calls setitem_string_array n times, at the indices 0,
\* 1, ..., n - 1 in this order, with strings whose lengths sum to c, so
\* that offsets[0] = 0, the offsets never decrease and offsets[n] = c, the
\* number of characters of the buffer.
C30_TwoPassAllocation ==
    /\ (Returned("getitem_bool") \/ Returned("getitem_arr")) =>
          TwoPass(sres.ret.out_arr, sres.ret.alloc, sres.ret.calls)
    /\ (sop = "str_list_to_array" /\ sres.at = "array") =>
          TwoPass(sres.str_arr, sres.alloc, sres.calls)

\* the items 2, 0, 2 of the buffer of "ab", "", "b": three calls, four
\* characters
C30_Witness ==
    /\ Returned("getitem_arr")
    /\ sargs.str_list = << <<1, 2>>, <<>>, <<2>> >>
    /\ sargs.ind = <<2, 0, 2>>
    /\ sres.ret.alloc = <<3, 4>>
    /\ sres.ret.calls = << <<0, 1>>, <<1, 2>>, <<2, 1>> >>
    /\ sres.ret.out_arr.offsets = <<0, 1, 3, 4>>
====
